---- MODULE Spec2Model ----
(***************************************************************************)
(* Verification model of the sky_mcp gateway trust boundary:               *)
(*   - the response-envelope protocol      (sky_mcp/response.py)           *)
(*   - the sandboxed path resolver         (sky_mcp/paths.py)              *)
(*   - the atomic artifact writer          (sky_mcp/report_io.py)          *)
(*   - the tool handlers                   (sky_mcp/tools.py)              *)
(* Python values are modelled as tagged records [t |-> type, v |-> repr].  *)
(***************************************************************************)
EXTENDS Integers, Sequences, FiniteSets, TLC

VARIABLES envCall, envOut, strictOut,      \* envelope constructor call
          fsNode, environ, pathCall, pathOut, \* sandbox: filesystem, env, call
          toolCall, toolOut,                  \* tool handler call
          wPc, wContent, wOld, wDir, wFiles,  \* atomic_write_text call
          readerSaw,                          \* last read of the target
          repCall, repOut,                    \* build_report_path call
          simCall, simOut,                    \* similarity search ranking
          toolDefs, srvPc,                    \* server: registry, main()
          srvTool, srvNamed,                  \* backend.tool, _supports_named
          fastTools, stdioTools, srvLog,      \* registrations, backend events
          valCall, valOut,                    \* direct validate_envelope call
          callLog,                            \* resolver calls of a session
          cw, cwDir, cwLast                   \* concurrent writers, last rename

envVars == <<envCall, envOut, strictOut>>
sandboxVars == <<fsNode, environ, pathCall, pathOut>>
toolVars == <<toolCall, toolOut>>
writerVars == <<wPc, wContent, wOld, wDir, wFiles, readerSaw>>
reportVars == <<repCall, repOut>>
simVars == <<simCall, simOut>>
serverVars ==
    <<toolDefs, srvPc, srvTool, srvNamed, fastTools, stdioTools, srvLog>>
validateVars == <<valCall, valOut>>
sessionVars == <<callLog>>
writersVars == <<cw, cwDir, cwLast>>
lateVars == <<validateVars, sessionVars, writersVars>>
extVars == <<reportVars, simVars, serverVars, lateVars>>
coreVars == <<envVars, sandboxVars, toolVars, writerVars>>
vars == <<envVars, sandboxVars, toolVars, writerVars, extVars>>

-----------------------------------------------------------------------------
(* Python values                                                           *)

PyVal(t, v) == [t |-> t, v |-> v]
PyNone == PyVal("none", "None")
PyStr(s) == PyVal("str", s)
PyTrue == PyVal("bool", "True")
PyFalse == PyVal("bool", "False")
EmptyDict == PyVal("dict", "{}")

\* bool(x) is False: None, "", 0, False and the empty containers
Falsy(x) ==
    \/ x.t = "none"
    \/ x.t = "str" /\ x.v = ""
    \/ x.t = "int" /\ x.v = "0"
    \/ x.t = "bool" /\ x.v = "False"
    \/ x.t = "list" /\ x.v = "[]"
    \/ x.t = "dict" /\ x.v = "{}"
    \/ x.t = "set" /\ x.v = "set()"

\* the Python expression  x or {}
OrEmptyDict(x) == IF Falsy(x) THEN EmptyDict ELSE x

\* isinstance(x, dict)
IsDict(x) == x.t = "dict"

\* hash(x) raises TypeError for list and dict; set.__contains__ retries an
\* unhashable set as a frozenset, so a set operand does not raise
HashableForContains(x) == x.t \notin {"list", "dict"}

\* str(x)
StrOf(x) == x.v

-----------------------------------------------------------------------------
(* sky_mcp/response.py                                                     *)

ALLOWED_ERROR_TYPES ==
    { "missing_env", "file_not_found", "invalid_input", "permission_denied",
      "file_too_large", "mp_api_error", "upstream_timeout",
      "upstream_rate_limited", "runtime_error" }

EnvKeys == {"ok", "data", "error", "meta", "provenance"}
ErrKeys == {"type", "message", "details"}

\* the value None in the error slot
NoError == [t |-> "none", keys |-> {}, type |-> PyNone, message |-> PyNone,
            details |-> PyNone]

\* the dict {"type": .., "message": .., "details": ..}
ErrorDict(type, message, details) ==
    [t |-> "dict", keys |-> ErrKeys, type |-> type, message |-> message,
     details |-> details]

_envelope(ok, data, error, meta, provenance) ==
    [isdict |-> TRUE, keys |-> EnvKeys, ok |-> ok, data |-> data,
     error |-> error, meta |-> OrEmptyDict(meta),
     provenance |-> OrEmptyDict(provenance)]

NoResp == _envelope(PyNone, PyNone, NoError, EmptyDict, EmptyDict)

Returned(resp) == [kind |-> "return", exc |-> "", resp |-> resp]
Raised(exc) == [kind |-> "raise", exc |-> exc, resp |-> NoResp]

\* The assertions of validate_envelope in source order: the message of the
\* first failing assert, "TypeError" when the membership test cannot hash
\* error.type, "" when every assertion passes.
FirstViolation(resp) ==
    IF ~resp.isdict THEN "Envelope must be a dict."
    ELSE IF "ok" \notin resp.keys THEN "Envelope missing ok."
    ELSE IF "data" \notin resp.keys THEN "Envelope missing data."
    ELSE IF "error" \notin resp.keys THEN "Envelope missing error."
    ELSE IF "meta" \notin resp.keys THEN "Envelope missing meta."
    ELSE IF "provenance" \notin resp.keys THEN "Envelope missing provenance."
    ELSE IF ~IsDict(resp.meta) THEN "meta must be dict."
    ELSE IF ~IsDict(resp.provenance) THEN "provenance must be dict."
    ELSE IF resp.ok = PyTrue
         THEN IF resp.error.t # "none" THEN "ok True requires error=None."
              ELSE ""
    ELSE IF resp.data.t # "none" THEN "ok False requires data=None."
    ELSE IF resp.error.t # "dict" THEN "error must be dict."
    ELSE IF "type" \notin resp.error.keys THEN "error missing type."
    ELSE IF "message" \notin resp.error.keys THEN "error missing message."
    ELSE IF "details" \notin resp.error.keys THEN "error missing details."
    ELSE IF ~HashableForContains(resp.error.type) THEN "TypeError"
    ELSE IF ~(resp.error.type.t = "str"
              /\ resp.error.type.v \in ALLOWED_ERROR_TYPES)
         THEN "Invalid error.type: " \o StrOf(resp.error.type)
    ELSE ""

\* validate_envelope without the substitution branch of the except clause
validate_envelope_no_substitute(resp, strict) ==
    LET v == FirstViolation(resp) IN
    IF v = "TypeError" THEN Raised("TypeError")
    ELSE IF v # "" /\ strict THEN Raised("AssertionError")
    ELSE Returned(resp)

validate_envelope(resp, strict) ==
    LET v == FirstViolation(resp) IN
    IF v = "" THEN Returned(resp)
    ELSE IF v = "TypeError" THEN Raised("TypeError")
    ELSE IF strict THEN Raised("AssertionError")
    ELSE Returned(_envelope(PyFalse, PyNone,
                            ErrorDict(PyStr("runtime_error"),
                                      PyStr("Envelope validation failed."),
                                      PyStr(v)),
                            EmptyDict, EmptyDict))

make_ok(data, meta, provenance) ==
    validate_envelope(_envelope(PyTrue, data, NoError, meta, provenance), FALSE)

make_err(error_type, message, details, meta, provenance) ==
    validate_envelope(
        _envelope(PyFalse, PyNone, ErrorDict(error_type, message, details),
                  meta, provenance),
        FALSE)

-----------------------------------------------------------------------------
(* Arguments the envelope constructors are exercised with                  *)

ErrorTypeArgs ==
    { PyStr(s) : s \in ALLOWED_ERROR_TYPES \cup {"bogus", ""} }
    \cup { PyNone, PyVal("int", "5"), PyVal("list", "['x']"),
           PyVal("dict", "{'a': 1}"), PyVal("set", "{1}") }

MessageArgs == { PyStr("m"), PyVal("int", "7") }

DataArgs == { PyNone, PyStr("payload"), PyVal("dict", "{'k': 1}"),
              PyVal("list", "[]") }

MappingArgs ==
    { PyNone, EmptyDict, PyVal("dict", "{'tool': 't'}"), PyVal("list", "[]"),
      PyVal("list", "[1]"), PyStr("x") }

NoCall == [fn |-> "none", data |-> PyNone, error_type |-> PyNone,
           message |-> PyNone, details |-> PyNone, meta |-> PyNone,
           provenance |-> PyNone]

NoOut == [kind |-> "none", exc |-> "", resp |-> NoResp]

OkCalls ==
    { [NoCall EXCEPT !.fn = "make_ok", !.data = data, !.meta = meta,
                     !.provenance = provenance] :
        data \in DataArgs, meta \in MappingArgs, provenance \in MappingArgs }

ErrCalls ==
    { [NoCall EXCEPT !.fn = "make_err", !.error_type = error_type,
                     !.message = message, !.details = details, !.meta = meta,
                     !.provenance = provenance] :
        error_type \in ErrorTypeArgs, message \in MessageArgs,
        details \in DataArgs, meta \in MappingArgs,
        provenance \in MappingArgs }

\* a constructor call with its arguments bound, body not yet executed
EnvInit ==
    /\ envCall \in OkCalls \cup ErrCalls
    /\ envOut = NoOut
    /\ strictOut = NoOut

MakeOk ==
    /\ envCall.fn = "make_ok"
    /\ envOut = NoOut
    /\ envOut' = make_ok(envCall.data, envCall.meta, envCall.provenance)
    /\ UNCHANGED <<envCall, strictOut, sandboxVars, toolVars, writerVars, extVars>>

MakeErr ==
    /\ envCall.fn = "make_err"
    /\ envOut = NoOut
    /\ envOut' = make_err(envCall.error_type, envCall.message,
                          envCall.details, envCall.meta, envCall.provenance)
    /\ UNCHANGED <<envCall, strictOut, sandboxVars, toolVars, writerVars, extVars>>

\* tests/test_mcp_hardening.py: validate_envelope(resp, strict=True) on a
\* value a constructor returned
StrictCheck ==
    /\ envOut.kind = "return"
    /\ strictOut = NoOut
    /\ strictOut' = validate_envelope(envOut.resp, TRUE)
    /\ UNCHANGED <<envCall, envOut, sandboxVars, toolVars, writerVars, extVars>>

EnvNext == MakeOk \/ MakeErr \/ StrictCheck

-----------------------------------------------------------------------------
(* Envelope claims                                                         *)

\* the schema invariants of an envelope, stated on the value itself
EnvelopeInvariant(resp) ==
    /\ resp.isdict /\ resp.keys = EnvKeys
    /\ IsDict(resp.meta)
    /\ IsDict(resp.provenance)
    /\ resp.ok \in {PyTrue, PyFalse}
    /\ resp.ok = PyTrue => resp.error = NoError
    /\ resp.ok = PyFalse =>
          /\ resp.data = PyNone
          /\ resp.error.t = "dict"
          /\ ErrKeys \subseteq resp.error.keys
          /\ resp.error.type.t = "str"
          /\ resp.error.type.v \in ALLOWED_ERROR_TYPES

\* the value a constructor call builds before validating it
BuiltValue(c) ==
    IF c.fn = "make_ok"
    THEN _envelope(PyTrue, c.data, NoError, c.meta, c.provenance)
    ELSE _envelope(PyFalse, PyNone,
                   ErrorDict(c.error_type, c.message, c.details),
                   c.meta, c.provenance)

IsSubstitute(resp) ==
    /\ resp.ok = PyFalse
    /\ resp.data = PyNone
    /\ resp.error.t = "dict"
    /\ resp.error.type = PyStr("runtime_error")
    /\ resp.error.message = PyStr("Envelope validation failed.")
    /\ resp.meta = EmptyDict
    /\ resp.provenance = EmptyDict

\* C1: every envelope that make_ok or make_err returns satisfies the schema
\* invariants, and validate_envelope(envelope, strict=True) accepts it
\* unchanged.
C1_ReturnedEnvelopeValid ==
    /\ envOut.kind = "return" => EnvelopeInvariant(envOut.resp)
    /\ strictOut # NoOut =>
          strictOut.kind = "return" /\ strictOut.resp = envOut.resp

\* a make_err call with an unknown error type string and a list as meta has
\* returned and its result has been validated strictly
C1_Witness ==
    /\ envCall.fn = "make_err"
    /\ envCall.error_type = PyStr("bogus")
    /\ envCall.meta = PyVal("list", "[1]")
    /\ envOut.kind = "return"
    /\ strictOut.kind = "return"

\* C2: whenever the value a constructor builds violates an envelope
\* invariant, the constructor returns the runtime_error substitute with
\* empty meta and provenance.
C2_MalformedIsSubstituted ==
    (envOut # NoOut /\ ~EnvelopeInvariant(BuiltValue(envCall))) =>
        (envOut.kind = "return" /\ IsSubstitute(envOut.resp))

\* C3: no constructor call ends by raising.
C3_ConstructorsNeverRaise == envOut.kind # "raise"

-----------------------------------------------------------------------------
(* Path strings and the filesystem                                         *)

\* longest path string, in components
MaxPathLen == 3

Names == {"..", "repo", "etc", "f.cif", "link"}

\* "/" absolute, "" relative, "~" the caller's home, "~nouser" the home of a
\* user that does not exist
Prefixes == {"/", "", "~", "~nouser"}

\* kind: "none" None, "empty" "", "blank" whitespace only, "nonstr" a value
\* that is not a string, "nul" a string with an embedded NUL, "path"
PathStr(kind, prefix, parts) == [kind |-> kind, prefix |-> prefix, parts |-> parts]
AbsPath(parts) == PathStr("path", "/", parts)

RECURSIVE SeqsOfLen(_)
SeqsOfLen(n) ==
    IF n = 0 THEN {<<>>}
    ELSE {Append(q, c) : q \in SeqsOfLen(n - 1), c \in Names}

PartSeqs == UNION {SeqsOfLen(n) : n \in 0..MaxPathLen}

PathStrs ==
    { PathStr("path", pre, parts) : pre \in Prefixes, parts \in PartSeqs }
        \ {PathStr("path", "", <<>>)}

OddPathStrs ==
    { PathStr(k, "", <<>>) : k \in {"none", "empty", "blank", "nonstr"} }
    \cup { PathStr("nul", "", <<"..", "f.cif">>),
           PathStr("nul", "/", <<"repo", "f.cif">>) }

REPO_ROOT == <<"repo">>
ASSETS_DIR == <<"repo", "assets">>
CWD == <<"repo">>
HOME == <<"home">>
LinkPath == <<"repo", "link">>
LinkTarget == <<"etc">>
VarFile == <<"repo", "f.cif">>
EtcFile == <<"etc", "f.cif">>

Node(kind, size, statErr) == [kind |-> kind, size |-> size, statErr |-> statErr]

\* what lstat finds at the absolute, symlink-free path p; node is the state
\* of /repo/f.cif: "absent", "dir", "file" (statErr: the file is gone when
\* it is statted for its size), or "unstattable" when stat of the path
\* fails with an error other than ENOENT/ENOTDIR/EBADF/ELOOP (EACCES on the
\* directory, ENAMETOOLONG)
Lookup(node, p) ==
    IF p \in {<<>>, REPO_ROOT, LinkTarget, HOME, ASSETS_DIR}
        THEN Node("dir", 0, FALSE)
    ELSE IF p = LinkPath THEN Node("link", 0, FALSE)
    ELSE IF p = EtcFile THEN Node("file", 7, FALSE)
    ELSE IF p = VarFile THEN node
    ELSE Node("absent", 0, FALSE)

\* os.path.realpath(strict=False): components are applied left to right to
\* an already real prefix; ".." pops, a symlink is replaced by its target
RECURSIVE RealPath(_, _)
RealPath(cur, parts) ==
    IF parts = <<>> THEN cur
    ELSE LET c == Head(parts)
             nxt == Append(cur, c)
         IN IF c = ".."
            THEN RealPath(IF cur = <<>> THEN <<>>
                          ELSE SubSeq(cur, 1, Len(cur) - 1), Tail(parts))
            ELSE RealPath(IF nxt = LinkPath THEN LinkTarget ELSE nxt,
                          Tail(parts))

\* Path(p).expanduser(): [ok, p]; not ok when Path() or expanduser() raises
ExpandUser(p) ==
    IF p.kind = "nonstr" THEN [ok |-> FALSE, p |-> p]
    ELSE IF p.prefix = "~nouser" THEN [ok |-> FALSE, p |-> p]
    ELSE IF p.prefix = "~"
        THEN [ok |-> TRUE, p |-> PathStr(p.kind, "/", HOME \o p.parts)]
    ELSE [ok |-> TRUE, p |-> p]

\* Path.resolve(strict=False) of an expanded path: [ok, path]; an embedded
\* NUL makes the lstat inside realpath raise ValueError
ResolvePath(p) ==
    IF p.kind = "nul" THEN [ok |-> FALSE, path |-> <<>>]
    ELSE [ok |-> TRUE,
          path |-> RealPath(IF p.prefix = "/" THEN <<>> ELSE CWD, p.parts)]

\* root argument swapped with the path
IsRelativeToSwapped(path, root) ==
    /\ Len(path) <= Len(root)
    /\ SubSeq(root, 1, Len(path)) = path

\* PurePath.is_relative_to
IsRelativeTo(path, root) ==
    /\ Len(root) <= Len(path)
    /\ SubSeq(path, 1, Len(root)) = root

-----------------------------------------------------------------------------
(* sky_mcp/paths.py                                                        *)

DEFAULT_MAX_FILE_BYTES == 2000000

\* an environment variable: unset, or set to a string
Unset == [set |-> FALSE, val |-> <<>>]
SetTo(val) == [set |-> TRUE, val |-> val]

DigitChars == <<"0", "1", "2", "3", "4", "5", "6", "7", "8", "9">>
IsDigit(c) == \E i \in 1..10 : DigitChars[i] = c
DigitVal(c) == (CHOOSE i \in 1..10 : DigitChars[i] = c) - 1

RECURSIVE LStrip(_)
LStrip(s) == IF s # <<>> /\ Head(s) = " " THEN LStrip(Tail(s)) ELSE s

RECURSIVE RStrip(_)
RStrip(s) ==
    IF s # <<>> /\ s[Len(s)] = " " THEN RStrip(SubSeq(s, 1, Len(s) - 1)) ELSE s

RECURSIVE DigitsValue(_, _)
DigitsValue(s, acc) ==
    IF s = <<>> THEN acc
    ELSE IF Head(s) = "_" THEN DigitsValue(Tail(s), acc)
    ELSE DigitsValue(Tail(s), 10 * acc + DigitVal(Head(s)))

\* int(s) for a string s given as its characters: surrounding blanks are
\* stripped, one sign is allowed, digits may be separated by single "_";
\* [ok, n] with ok = FALSE where int() raises ValueError
IntOfStr(s) ==
    LET t == RStrip(LStrip(s))
        signed == t # <<>> /\ Head(t) \in {"-", "+"}
        body == IF signed THEN Tail(t) ELSE t
        wellFormed ==
            /\ body # <<>>
            /\ IsDigit(body[1]) /\ IsDigit(body[Len(body)])
            /\ \A i \in 1..Len(body) : IsDigit(body[i]) \/ body[i] = "_"
            /\ \A i \in 1..(Len(body) - 1) : ~(body[i] = "_" /\ body[i + 1] = "_")
    IN IF ~wellFormed THEN [ok |-> FALSE, n |-> 0]
       ELSE [ok |-> TRUE,
             n |-> IF signed /\ Head(t) = "-" THEN 0 - DigitsValue(body, 0)
                   ELSE DigitsValue(body, 0)]

\* zero accepted as a ceiling: parsed >= 0
_parse_max_bytes_allow_zero(env) ==
    LET value == env.SKY_MCP_MAX_FILE_BYTES
        parsed == IntOfStr(value.val)
    IN IF ~value.set \/ value.val = <<>> THEN DEFAULT_MAX_FILE_BYTES
       ELSE IF ~parsed.ok THEN DEFAULT_MAX_FILE_BYTES
       ELSE IF parsed.n >= 0 THEN parsed.n
       ELSE DEFAULT_MAX_FILE_BYTES

_parse_max_bytes(env) ==
    LET value == env.SKY_MCP_MAX_FILE_BYTES
        parsed == IntOfStr(value.val)
    IN IF ~value.set \/ value.val = <<>> THEN DEFAULT_MAX_FILE_BYTES
       ELSE IF ~parsed.ok THEN DEFAULT_MAX_FILE_BYTES
       ELSE IF parsed.n > 0 THEN parsed.n
       ELSE DEFAULT_MAX_FILE_BYTES

\* SKY_MCP_ALLOWED_ROOTS is held as the sequence of its os.pathsep-separated
\* entries; an entry of kind "blank" is one that is empty after strip()
_default_allowed_roots(env) ==
    LET extra == env.SKY_MCP_ALLOWED_ROOTS
        kept == SelectSeq(extra.val, LAMBDA raw : raw.kind # "blank")
    IN <<AbsPath(REPO_ROOT), AbsPath(ASSETS_DIR), AbsPath(CWD)>>
       \o (IF extra.set /\ extra.val # <<>> THEN kept ELSE <<>>)

\* arguments with a default of None
NotGiven == [given |-> FALSE, val |-> <<>>]
Given(val) == [given |-> TRUE, val |-> val]
NoLimit == [given |-> FALSE, val |-> 0]

NoDetails == [path |-> <<>>, allowed_roots |-> <<>>, size |-> 0, max_bytes |-> 0]

PathReturned(path) ==
    [kind |-> "return", path |-> path, error_type |-> "", message |-> "",
     exc |-> "", details |-> NoDetails]
PathResolutionError(error_type, message, details) ==
    [kind |-> "error", path |-> <<>>, error_type |-> error_type,
     message |-> message, exc |-> "PathResolutionError", details |-> details]
PathRaised(exc) ==
    [kind |-> "raise", path |-> <<>>, error_type |-> "", message |-> "",
     exc |-> exc, details |-> NoDetails]
NoPathOut ==
    [kind |-> "none", path |-> <<>>, error_type |-> "", message |-> "",
     exc |-> "", details |-> NoDetails]

\* a directory passes: only existence is tested
is_file_exists_only(found) == found.kind # "absent"

\* Path.is_file() on what the resolved path leads to
is_file(found) == found.kind = "file"

\* the size test with >= in place of >
ExceedsLimitInclusive(size, limit) == size >= limit

\* size > limit
ExceedsLimit(size, limit) == size > limit

\* [Path(root).expanduser().resolve(strict=False) for root in roots]:
\* [ok, roots, exc]; the first root that cannot be expanded or resolved
\* raises out of the comprehension
ResolveRoots(roots) ==
    LET bad(i) == ~ExpandUser(roots[i]).ok
                  \/ ~ResolvePath(ExpandUser(roots[i]).p).ok
        failing == {i \in 1..Len(roots) : bad(i)}
        first == CHOOSE i \in failing : \A j \in failing : i <= j
    IN IF failing = {}
       THEN [ok |-> TRUE, exc |-> "",
             roots |-> [i \in 1..Len(roots) |->
                            ResolvePath(ExpandUser(roots[i]).p).path]]
       ELSE [ok |-> FALSE, roots |-> <<>>,
             exc |-> IF roots[first].kind = "nonstr" THEN "TypeError"
                     ELSE IF ~ExpandUser(roots[first]).ok THEN "RuntimeError"
                     ELSE "ValueError"]

resolve_local_path(path_str, allowed_roots, max_bytes, env, node) ==
    IF path_str.kind \in {"none", "empty", "blank"}
        THEN PathResolutionError("invalid_input", "Path is required.", NoDetails)
    ELSE LET candidate == ExpandUser(path_str) IN
    IF ~candidate.ok
        THEN PathResolutionError("invalid_input", "Invalid path string.", NoDetails)
    ELSE LET res == ResolvePath(candidate.p) IN
    IF ~res.ok THEN PathRaised("ValueError")
    ELSE LET resolved == res.path
             roots == IF allowed_roots.given THEN allowed_roots.val
                      ELSE _default_allowed_roots(env)
             rr == ResolveRoots(roots)
             found == Lookup(node, resolved)
             limit == IF max_bytes.given THEN max_bytes.val
                      ELSE _parse_max_bytes(env)
             det == [NoDetails EXCEPT !.path = resolved]
    IN IF ~rr.ok THEN PathRaised(rr.exc)
       ELSE IF ~\E i \in 1..Len(rr.roots) : IsRelativeTo(resolved, rr.roots[i])
           THEN PathResolutionError("permission_denied",
                    "Path is outside allowed roots.",
                    [det EXCEPT !.allowed_roots = rr.roots])
       ELSE IF found.kind = "unstattable" THEN PathRaised("OSError")
       ELSE IF found.kind = "absent"
           THEN PathResolutionError("file_not_found", "File not found.", det)
       ELSE IF ~is_file(found)
           THEN PathResolutionError("invalid_input", "Path is not a file.", det)
       ELSE IF found.statErr
           THEN PathResolutionError("runtime_error", "Unable to stat file.", det)
       ELSE IF ExceedsLimit(found.size, limit)
           THEN PathResolutionError("file_too_large", "File exceeds size limit.",
                    [det EXCEPT !.size = found.size, !.max_bytes = limit])
       ELSE PathReturned(resolved)

-----------------------------------------------------------------------------
(* sky_mcp/tools.py                                                        *)

\* A handler call: op, the kind of its string or list argument ("valid",
\* "invalid" content, "empty", "blank", "none", "nonstr" a truthy value of
\* another type), and what its collaborators do: asset (find_asset:
\* "found", "missing", "oserror"), collab (parser, search API, remote
\* client or agent: "ok", "notfound" FileNotFoundError, "missing_env"
\* MissingEnvError, "error" any other exception), the environment values
\* of the credentials (mpKey: MP_API_KEY; openaiKey: OPENAI_MDG_API_KEY and
\* OPENAI_API_KEY), and the html flag.
ToolCall(op, arg, asset, collab, mpKey, openaiKey, html) ==
    [op |-> op, arg |-> arg, asset |-> asset, collab |-> collab,
     mpKey |-> mpKey, openaiKey |-> openaiKey, html |-> html]

\* the variable is set, whatever its value ("is not None")
EnvIsSet(value) == value.set

\* bool(os.getenv(NAME)): the variable is set and its value is not ""
EnvTruthy(value) == value.set /\ value.val # <<>>

\* os.getenv(A) or os.getenv(B)
GetenvOr(a, b) == IF EnvTruthy(a) THEN a ELSE b

OpenAiKeys(mdg, plain) == [mdg |-> mdg, plain |-> plain]

_meta(tool_name) == PyVal("dict", "{'tool': '" \o tool_name \o "'}")
Provenance(source) == PyVal("dict", "{'source': '" \o source \o "'}")
Data(what) == PyVal("dict", "{" \o what \o "}")
Details(what) == PyStr(what)

\* not x or not x.strip(): "required" when the test is true, "raise" when
\* x.strip() raises AttributeError, "pass" otherwise
RequiredCheck(arg) ==
    IF arg \in {"none", "empty", "blank"} THEN "required"
    ELSE IF arg = "nonstr" THEN "raise"
    ELSE "pass"

_missing_asset_error(tool_name) ==
    make_err(PyStr("file_not_found"), PyStr("Required asset not found."),
             Data("base_dir"), _meta(tool_name), PyNone)

\* the try block around SearchAPI shared by the three similarity searches
SimilaritySearch(tool_name, c) ==
    IF c.collab = "ok"
        THEN make_ok(Data("neighbors"), _meta(tool_name), Provenance("computed"))
    ELSE IF c.collab = "notfound"
        THEN make_err(PyStr("file_not_found"), PyStr("Embedding dataset not found."),
                      Details("exc"), _meta(tool_name), PyNone)
    ELSE make_err(PyStr("runtime_error"), PyStr("Similarity search failed."),
                  Details("exc"), _meta(tool_name), PyNone)

\* the asset lookup before the search: find_asset runs outside any try
WithEmbedding(tool_name, c) ==
    IF c.asset = "oserror" THEN Raised("OSError")
    ELSE IF c.asset = "missing" THEN _missing_asset_error(tool_name)
    ELSE SimilaritySearch(tool_name, c)

\* except PathResolutionError as exc: return make_err(exc.error_type, ...)
PathErrorEnvelope(tool_name, r) ==
    make_err(PyStr(r.error_type), PyStr(r.message), Data("details"),
             _meta(tool_name), PyNone)

capabilities(c) ==
    IF c.asset = "oserror" THEN Raised("OSError")
    ELSE make_ok(Data("assets"), _meta("capabilities"), Provenance("local"))

read_cif(c) ==
    IF c.arg = "valid" /\ c.collab = "ok"
        THEN make_ok(Data("structure"), _meta("read_cif"), Provenance("local"))
    ELSE make_err(PyStr("invalid_input"), PyStr("Failed to parse CIF text."),
                  Details("exc"), _meta("read_cif"), PyNone)

read_cif_path(c, path_str, env, node) ==
    LET r == resolve_local_path(path_str, NotGiven, NoLimit, env, node) IN
    IF r.kind = "raise" THEN Raised(r.exc)
    ELSE IF r.kind = "error" THEN PathErrorEnvelope("read_cif_path", r)
    ELSE IF c.collab = "ok"
        THEN make_ok(Data("structure"), _meta("read_cif_path"), Provenance("local"))
    ELSE make_err(PyStr("runtime_error"), PyStr("Failed to read CIF file."),
                  Details("exc"), _meta("read_cif_path"), PyNone)

search_similar_by_composition(c) ==
    LET t == "search_similar_by_composition" IN
    IF RequiredCheck(c.arg) = "required"
        THEN make_err(PyStr("invalid_input"), PyStr("Formula is required."),
                      PyNone, _meta(t), PyNone)
    ELSE IF RequiredCheck(c.arg) = "raise" THEN Raised("AttributeError")
    ELSE IF c.arg = "invalid"
        THEN make_err(PyStr("invalid_input"), PyStr("Invalid formula."),
                      Details("exc"), _meta(t), PyNone)
    ELSE WithEmbedding(t, c)

search_similar_by_structure_cif(c) ==
    LET t == "search_similar_by_structure_cif" IN
    IF c.arg # "valid"
        THEN make_err(PyStr("invalid_input"), PyStr("Failed to parse CIF text."),
                      Details("exc"), _meta(t), PyNone)
    ELSE WithEmbedding(t, c)

\* c.arg is the content of the file: "valid" when Structure.from_file reads it
search_similar_by_structure_path(c, path_str, env, node) ==
    LET t == "search_similar_by_structure_path"
        r == resolve_local_path(path_str, NotGiven, NoLimit, env, node)
    IN IF r.kind = "raise" THEN Raised(r.exc)
       ELSE IF r.kind = "error" THEN PathErrorEnvelope(t, r)
       ELSE IF c.arg # "valid"
           THEN make_err(PyStr("runtime_error"), PyStr("Failed to read CIF file."),
                         Details("exc"), _meta(t), PyNone)
       ELSE WithEmbedding(t, c)

get_material_properties(c) ==
    LET t == "get_material_properties" IN
    IF c.arg \in {"none", "empty"}
        THEN make_err(PyStr("invalid_input"),
                      PyStr("material_ids must be a non-empty list."),
                      PyNone, _meta(t), PyNone)
    ELSE IF ~EnvTruthy(c.mpKey)
        THEN make_err(PyStr("missing_env"),
                      PyStr("MP_API_KEY not found in environment."),
                      PyNone, _meta(t), PyNone)
    ELSE IF c.collab = "ok"
        THEN make_ok(Data("results"), _meta(t), Provenance("mp"))
    ELSE make_err(PyStr("mp_api_error"),
                  PyStr("Failed to fetch material properties from Materials Project."),
                  Details("exc"), _meta(t), PyNone)

\* the except clause shared by the two handlers that use SynthesisAgent
AgentCall(t, c, failure) ==
    IF c.collab = "ok" THEN make_ok(Data("results"), _meta(t), Provenance("mp"))
    ELSE IF c.collab = "missing_env"
        THEN make_err(PyStr("missing_env"), PyStr("MP_API_KEY environment variable not set."),
                      PyNone, _meta(t), PyNone)
    ELSE make_err(PyStr("runtime_error"), PyStr(failure), Details("exc"),
                  _meta(t), PyNone)

\* asset "found" is the local recipes dataset; without it the agent is used
get_synthesis_recipes(c) ==
    LET t == "get_synthesis_recipes" IN
    IF RequiredCheck(c.arg) = "required"
        THEN make_err(PyStr("invalid_input"), PyStr("Formula is required."),
                      PyNone, _meta(t), PyNone)
    ELSE IF RequiredCheck(c.arg) = "raise" THEN Raised("AttributeError")
    ELSE IF c.arg = "invalid"
        THEN make_err(PyStr("invalid_input"), PyStr("Invalid formula."),
                      Details("exc"), _meta(t), PyNone)
    ELSE IF c.asset = "oserror" THEN Raised("OSError")
    ELSE IF c.asset = "found"
        THEN IF c.collab = "ok"
             THEN make_ok(Data("recipes"), _meta(t), Provenance("local"))
             ELSE make_err(PyStr("runtime_error"),
                           PyStr("Failed to load local synthesis dataset."),
                           Details("exc"), _meta(t), PyNone)
    ELSE AgentCall(t, c, "Recipe retrieval failed.")

analyze_synthesis_parameters(c) ==
    LET t == "analyze_synthesis_parameters" IN
    IF RequiredCheck(c.arg) = "required"
        THEN make_err(PyStr("invalid_input"), PyStr("text is required."),
                      PyNone, _meta(t), PyNone)
    ELSE IF RequiredCheck(c.arg) = "raise" THEN Raised("AttributeError")
    ELSE make_ok(Data("parameters"), _meta(t), Provenance("computed"))

recursive_synthesis_search(c) ==
    LET t == "recursive_synthesis_search" IN
    IF RequiredCheck(c.arg) = "required"
        THEN make_err(PyStr("invalid_input"), PyStr("Formula is required."),
                      PyNone, _meta(t), PyNone)
    ELSE IF RequiredCheck(c.arg) = "raise" THEN Raised("AttributeError")
    ELSE IF c.arg = "invalid"
        THEN make_err(PyStr("invalid_input"), PyStr("Invalid formula."),
                      Details("exc"), _meta(t), PyNone)
    ELSE IF c.asset = "oserror" THEN Raised("OSError")
    ELSE IF c.asset = "missing" THEN _missing_asset_error(t)
    ELSE IF ~EnvTruthy(c.mpKey)
        THEN make_err(PyStr("missing_env"),
                      PyStr("MP_API_KEY not found in environment."),
                      PyNone, _meta(t), PyNone)
    ELSE AgentCall(t, c, "Recursive synthesis search failed.")

discover_synthesis_report(c) ==
    LET t == "discover_synthesis_report" IN
    IF ~EnvTruthy(GetenvOr(c.openaiKey.mdg, c.openaiKey.plain))
        THEN make_err(PyStr("missing_env"),
                      PyStr("OPENAI_API_KEY or OPENAI_MDG_API_KEY not found in environment."),
                      PyNone, _meta(t), PyNone)
    ELSE IF c.collab = "ok"
        THEN make_ok(Data(IF c.html THEN "analysis_text, report_path"
                          ELSE "analysis_text"),
                     _meta(t), Provenance("openai"))
    ELSE make_err(PyStr("runtime_error"),
                  PyStr("Synthesis report generation failed."),
                  Details("exc"), _meta(t), PyNone)

self_check(c) ==
    IF c.asset = "oserror" THEN Raised("OSError")
    ELSE make_ok(Data("tools"), _meta("self_check"), Provenance("local"))

-----------------------------------------------------------------------------
(* Sandbox calls                                                           *)

Env(maxBytes, roots) ==
    [SKY_MCP_MAX_FILE_BYTES |-> maxBytes, SKY_MCP_ALLOWED_ROOTS |-> roots]

PathCall(path_str, allowed_roots, max_bytes) ==
    [path_str |-> path_str, allowed_roots |-> allowed_roots,
     max_bytes |-> max_bytes]

NoToolCall ==
    ToolCall("none", "none", "found", "ok", Unset, OpenAiKeys(Unset, Unset), FALSE)

\* values of SKY_MCP_ALLOWED_ROOTS: unset, "/etc", " :/etc", "~nouser/etc"
EnvRootValues ==
    { Unset,
      SetTo(<<AbsPath(<<"etc">>)>>),
      SetTo(<<PathStr("blank", "", <<>>), AbsPath(<<"etc">>)>>),
      SetTo(<<PathStr("path", "~nouser", <<"etc">>)>>) }

\* values of SKY_MCP_MAX_FILE_BYTES
EnvMaxValues ==
    { Unset, SetTo(<<>>), SetTo(<<"a", "b", "c">>), SetTo(<<"0">>),
      SetTo(<<"-", "3">>), SetTo(<<"7">>), SetTo(<<" ", "8", " ">>),
      SetTo(<<"+", "9">>), SetTo(<<"1", ".", "5">>) }

\* caller-supplied roots: none, [/etc], [/repo/link, /repo/assets]
RootArgs ==
    { NotGiven,
      Given(<<AbsPath(<<"etc">>)>>),
      Given(<<AbsPath(LinkPath), AbsPath(ASSETS_DIR)>>) }

LimitArgs == { NoLimit, Given(0), Given(7), Given(8) }

\* states of /repo/f.cif
NodeKinds ==
    { Node("absent", 0, FALSE), Node("dir", 0, FALSE), Node("file", 7, FALSE),
      Node("file", DEFAULT_MAX_FILE_BYTES + 1, FALSE),
      Node("unstattable", 0, FALSE) }

NodeSizes ==
    { Node("file", n, e) :
        n \in {0, 7, 8, 9, DEFAULT_MAX_FILE_BYTES, DEFAULT_MAX_FILE_BYTES + 1},
        e \in BOOLEAN }

\* paths that reach /repo/f.cif and /etc/f.cif
FilePathStrs ==
    { AbsPath(VarFile), PathStr("path", "", <<"f.cif">>), AbsPath(EtcFile),
      PathStr("path", "", <<"..", "etc", "f.cif">>) }

ReadCifPathCalls ==
    { ToolCall("read_cif_path", "valid", "found", collab, Unset,
               OpenAiKeys(Unset, Unset), FALSE) :
        collab \in {"ok", "error"} }

\* every path string against every root configuration
SandboxInitWide ==
    /\ pathCall \in { PathCall(p, r, NoLimit) :
                        p \in PathStrs \cup OddPathStrs, r \in RootArgs }
    /\ environ \in { Env(Unset, r) : r \in EnvRootValues }
    /\ fsNode \in NodeKinds

\* every size against every ceiling configuration
SandboxInitDeep ==
    /\ pathCall \in { PathCall(p, NotGiven, m) :
                        p \in FilePathStrs, m \in LimitArgs }
    /\ environ \in { Env(m, SetTo(<<AbsPath(<<"etc">>)>>)) : m \in EnvMaxValues }
    /\ fsNode \in NodeSizes

SandboxInit ==
    /\ SandboxInitWide \/ SandboxInitDeep
    /\ pathOut = NoPathOut
    /\ toolCall \in ReadCifPathCalls
    /\ toolOut = NoOut

ResolveLocalPath ==
    /\ pathOut = NoPathOut
    /\ pathOut' = resolve_local_path(pathCall.path_str, pathCall.allowed_roots,
                                     pathCall.max_bytes, environ, fsNode)
    /\ UNCHANGED <<fsNode, environ, pathCall, toolVars, envVars, writerVars, extVars>>

\* tools.read_cif_path(cif_path): the resolver is called with its defaults
ReadCifPath ==
    /\ toolCall.op = "read_cif_path"
    /\ toolOut = NoOut
    /\ ~pathCall.allowed_roots.given /\ ~pathCall.max_bytes.given
    /\ toolOut' = read_cif_path(toolCall, pathCall.path_str, environ, fsNode)
    /\ UNCHANGED <<sandboxVars, toolCall, envVars, writerVars, extVars>>

SandboxNext == ResolveLocalPath \/ ReadCifPath

-----------------------------------------------------------------------------
(* sky_mcp/report_io.py: atomic_write_text                                 *)

\* longest content, in characters
MaxContentLen == 2

Chars == {"a", "b"}

RECURSIVE TextsOfLen(_)
TextsOfLen(n) ==
    IF n = 0 THEN {<<>>}
    ELSE {Append(q, c) : q \in TextsOfLen(n - 1), c \in Chars}

Texts == UNION {TextsOfLen(n) : n \in 0..MaxContentLen}

NoFile == [exists |-> FALSE, data |-> <<>>]
File(data) == [exists |-> TRUE, data |-> data]

\* the target's directory as the call sees it: the file under the final
\* name and the temporary files "<stem>_<random>.tmp" this call created
Files(target, tmps) == [target |-> target, tmps |-> tmps]

\* the target itself is opened for writing
OpenTarget(files) == Files(File(<<>>), Append(files.tmps, File(<<>>)))

\* tempfile.NamedTemporaryFile(mode="w", delete=False, dir=parent, ...):
\* a new empty file under a name that did not exist
OpenTemp(files) == Files(files.target, Append(files.tmps, File(<<>>)))

LastTmp(files) == files.tmps[Len(files.tmps)]

\* the character goes to the file under the final name
WriteToTarget(files, c) ==
    Files(File(Append(files.target.data, c)),
          [files.tmps EXCEPT ![Len(files.tmps)] = File(Append(@.data, c))])

\* tmp.write(content), one character reaching the temporary file
WriteToTemp(files, c) ==
    Files(files.target,
          [files.tmps EXCEPT ![Len(files.tmps)] = File(Append(@.data, c))])

\* the temporary file is copied onto the target and kept
CopyOnto(files) == Files(LastTmp(files), files.tmps)

\* os.replace(temp_name, target_path): one atomic rename
Replace(files) ==
    Files(LastTmp(files), SubSeq(files.tmps, 1, Len(files.tmps) - 1))

WriterInit ==
    /\ wPc = "start"
    /\ wContent \in Texts
    /\ wDir \in BOOLEAN
    /\ wOld \in {NoFile} \cup {File(t) : t \in Texts}
    /\ wOld.exists => wDir
    /\ wFiles = Files(wOld, <<>>)
    /\ readerSaw = [read |-> FALSE, file |-> NoFile]

\* target_path.parent.mkdir(parents=True, exist_ok=True)
Mkdir ==
    /\ wPc = "start"
    /\ wPc' = "mkdir"
    /\ wDir' = TRUE
    /\ UNCHANGED <<wContent, wOld, wFiles, readerSaw>>
    /\ UNCHANGED <<envVars, sandboxVars, toolVars, extVars>>

CreateTemp ==
    /\ wPc = "mkdir"
    /\ wPc' = "write"
    /\ wFiles' = OpenTemp(wFiles)
    /\ UNCHANGED <<wContent, wOld, wDir, readerSaw>>
    /\ UNCHANGED <<envVars, sandboxVars, toolVars, extVars>>

\* the next character of content reaches the temporary file
WriteChar ==
    /\ wPc = "write"
    /\ Len(LastTmp(wFiles).data) < Len(wContent)
    /\ wFiles' = WriteToTemp(wFiles, wContent[Len(LastTmp(wFiles).data) + 1])
    /\ UNCHANGED <<wPc, wContent, wOld, wDir, readerSaw>>
    /\ UNCHANGED <<envVars, sandboxVars, toolVars, extVars>>

\* leaving the with block closes the file; temp_name is known
CloseTemp ==
    /\ wPc = "write"
    /\ Len(LastTmp(wFiles).data) = Len(wContent)
    /\ wPc' = "replace"
    /\ UNCHANGED <<wContent, wOld, wDir, wFiles, readerSaw>>
    /\ UNCHANGED <<envVars, sandboxVars, toolVars, extVars>>

OsReplace ==
    /\ wPc = "replace"
    /\ wPc' = "returned"
    /\ wFiles' = Replace(wFiles)
    /\ UNCHANGED <<wContent, wOld, wDir, readerSaw>>
    /\ UNCHANGED <<envVars, sandboxVars, toolVars, extVars>>

\* an OSError (or an encoding error in write) at the step about to run: the
\* exception leaves atomic_write_text, which has no handler; a temporary
\* file that was created stays (delete=False)
Fail ==
    /\ wPc \in {"start", "mkdir", "write", "replace"}
    /\ wPc' = "failed"
    /\ UNCHANGED <<wContent, wOld, wDir, wFiles, readerSaw>>
    /\ UNCHANGED <<envVars, sandboxVars, toolVars, extVars>>

\* a concurrent reader opens the final name and reads it to the end
ReadTarget ==
    /\ readerSaw' = [read |-> TRUE, file |-> wFiles.target]
    /\ UNCHANGED <<wPc, wContent, wOld, wDir, wFiles>>
    /\ UNCHANGED <<envVars, sandboxVars, toolVars, extVars>>

WriterNext ==
    Mkdir \/ CreateTemp \/ WriteChar \/ CloseTemp \/ OsReplace \/ Fail
        \/ ReadTarget

-----------------------------------------------------------------------------
(* Tool handler calls                                                      *)

ArgKinds == {"valid", "invalid", "empty", "blank", "none", "nonstr"}
AssetKinds == {"found", "missing", "oserror"}
CollabKinds == {"ok", "notfound", "missing_env", "error"}

\* a credential variable: unset, empty, a key, a blank value
CredValues == {Unset, SetTo(<<>>), SetTo(<<"k">>), SetTo(<<" ">>)}

PlainOps ==
    { "capabilities", "search_similar_by_composition",
      "search_similar_by_structure_cif", "read_cif", "get_material_properties",
      "get_synthesis_recipes", "analyze_synthesis_parameters",
      "recursive_synthesis_search", "discover_synthesis_report", "self_check" }

PathOps == {"search_similar_by_structure_path", "read_cif_path"}

\* handlers that take no path: the sandbox is not involved
ToolInitPlain ==
    /\ toolCall \in { ToolCall(op, arg, asset, collab, mpKey, openaiKey, html) :
                        op \in PlainOps, arg \in ArgKinds, asset \in AssetKinds,
                        collab \in CollabKinds, mpKey \in CredValues,
                        openaiKey \in { OpenAiKeys(m, k) :
                                          m \in CredValues, k \in CredValues },
                        html \in BOOLEAN }
    /\ pathCall = PathCall(PathStr("empty", "", <<>>), NotGiven, NoLimit)
    /\ environ = Env(Unset, Unset)
    /\ fsNode = Node("absent", 0, FALSE)

\* handlers that take a path: the argument is pathCall.path_str
ToolInitPath ==
    /\ toolCall \in { ToolCall(op, arg, asset, collab, Unset,
                                 OpenAiKeys(Unset, Unset), FALSE) :
                        op \in PathOps, arg \in {"valid", "invalid"},
                        asset \in AssetKinds, collab \in CollabKinds }
    /\ pathCall \in { PathCall(p, NotGiven, NoLimit) :
                        p \in FilePathStrs \cup OddPathStrs }
    /\ environ \in { Env(Unset, r) : r \in EnvRootValues }
    /\ fsNode \in NodeKinds

ToolInit ==
    /\ ToolInitPlain \/ ToolInitPath
    /\ pathOut = NoPathOut
    /\ toolOut = NoOut

\* the dispatcher invokes the handler registered under toolCall.op
Pending(op) == toolCall.op = op /\ toolOut = NoOut
Untouched == UNCHANGED <<sandboxVars, toolCall, envVars, writerVars, extVars>>

Capabilities ==
    Pending("capabilities") /\ toolOut' = capabilities(toolCall) /\ Untouched

SearchSimilarByComposition ==
    /\ Pending("search_similar_by_composition")
    /\ toolOut' = search_similar_by_composition(toolCall)
    /\ Untouched

SearchSimilarByStructureCif ==
    /\ Pending("search_similar_by_structure_cif")
    /\ toolOut' = search_similar_by_structure_cif(toolCall)
    /\ Untouched

SearchSimilarByStructurePath ==
    /\ Pending("search_similar_by_structure_path")
    /\ toolOut' = search_similar_by_structure_path(toolCall, pathCall.path_str,
                                                   environ, fsNode)
    /\ Untouched

ReadCif == Pending("read_cif") /\ toolOut' = read_cif(toolCall) /\ Untouched

GetMaterialProperties ==
    /\ Pending("get_material_properties")
    /\ toolOut' = get_material_properties(toolCall)
    /\ Untouched

GetSynthesisRecipes ==
    /\ Pending("get_synthesis_recipes")
    /\ toolOut' = get_synthesis_recipes(toolCall)
    /\ Untouched

AnalyzeSynthesisParameters ==
    /\ Pending("analyze_synthesis_parameters")
    /\ toolOut' = analyze_synthesis_parameters(toolCall)
    /\ Untouched

RecursiveSynthesisSearch ==
    /\ Pending("recursive_synthesis_search")
    /\ toolOut' = recursive_synthesis_search(toolCall)
    /\ Untouched

DiscoverSynthesisReport ==
    /\ Pending("discover_synthesis_report")
    /\ toolOut' = discover_synthesis_report(toolCall)
    /\ Untouched

SelfCheck ==
    Pending("self_check") /\ toolOut' = self_check(toolCall) /\ Untouched

ToolNext ==
    \/ Capabilities
    \/ SearchSimilarByComposition
    \/ SearchSimilarByStructureCif
    \/ SearchSimilarByStructurePath
    \/ ReadCif
    \/ ReadCifPath
    \/ GetMaterialProperties
    \/ GetSynthesisRecipes
    \/ AnalyzeSynthesisParameters
    \/ RecursiveSynthesisSearch
    \/ DiscoverSynthesisReport
    \/ SelfCheck

\* C4: every handler call ends by returning a well-formed envelope; none
\* ends with an exception leaving the handler.
C4_HandlersAlwaysReturnEnvelope ==
    toolOut # NoOut =>
        (toolOut.kind = "return" /\ EnvelopeInvariant(toolOut.resp))

-----------------------------------------------------------------------------
(* Sandbox claims                                                          *)

\* path is root or lies below it, component by component
UnderRoot(path, root) ==
    /\ Len(root) <= Len(path)
    /\ \A i \in 1..Len(root) : path[i] = root[i]

HasDotDot(p) == p.kind = "path" /\ \E i \in 1..Len(p.parts) : p.parts[i] = ".."

\* the roots a call is decided against, before normalisation
CallRoots ==
    IF pathCall.allowed_roots.given THEN pathCall.allowed_roots.val
    ELSE _default_allowed_roots(environ)

\* the candidate and every root can be expanded and normalised
Normalizable ==
    /\ pathCall.path_str.kind \in {"path", "nul"}
    /\ ExpandUser(pathCall.path_str).ok
    /\ ResolvePath(ExpandUser(pathCall.path_str).p).ok
    /\ ResolveRoots(CallRoots).ok

NormalizedCandidate == ResolvePath(ExpandUser(pathCall.path_str).p).path
NormalizedRoots == ResolveRoots(CallRoots).roots

UnderSomeRoot(path) ==
    \E i \in 1..Len(NormalizedRoots) : UnderRoot(path, NormalizedRoots[i])

\* the byte ceiling in force for the call
Ceiling ==
    IF pathCall.max_bytes.given THEN pathCall.max_bytes.val
    ELSE _parse_max_bytes(environ)

\* no ".." is left and no prefix of the path is a symbolic link
IsNormalForm(path) ==
    /\ \A i \in 1..Len(path) : path[i] # ".."
    /\ \A k \in 1..Len(path) : Lookup(fsNode, SubSeq(path, 1, k)).kind # "link"

\* C5: a path string with ".." segments whose normalised form is under no
\* normalised allowed root is answered with permission_denied, whatever is
\* at the normalised location, and read_cif_path answers it with ok=false.
C5_TraversalDenied ==
    (HasDotDot(pathCall.path_str) /\ Normalizable
        /\ ~UnderSomeRoot(NormalizedCandidate)) =>
        /\ pathOut # NoPathOut =>
              (pathOut.kind = "error" /\ pathOut.error_type = "permission_denied")
        /\ toolOut # NoOut =>
              /\ toolOut.kind = "return"
              /\ toolOut.resp.ok = PyFalse
              /\ toolOut.resp.error.type = PyStr("permission_denied")

\* "../etc/f.cif" from the working directory, where /etc/f.cif is a file
\* outside the default roots, has been answered by both entry points
C5_Witness ==
    /\ pathCall.path_str = PathStr("path", "", <<"..", "etc", "f.cif">>)
    /\ environ.SKY_MCP_ALLOWED_ROOTS = Unset
    /\ ~pathCall.allowed_roots.given
    /\ pathOut.error_type = "permission_denied"
    /\ toolOut.kind = "return"

\* C6: a returned path is in normal form, under a normalised allowed root,
\* an existing regular file, and no larger than the ceiling; a file of
\* exactly the ceiling size is returned.
C6_ReturnedPathIsSafe ==
    /\ pathOut.kind = "return" =>
          /\ Normalizable
          /\ pathOut.path = NormalizedCandidate
          /\ IsNormalForm(pathOut.path)
          /\ UnderSomeRoot(pathOut.path)
          /\ Lookup(fsNode, pathOut.path).kind = "file"
          /\ Lookup(fsNode, pathOut.path).size <= Ceiling
    /\ (/\ pathOut # NoPathOut /\ Normalizable
        /\ UnderSomeRoot(NormalizedCandidate)
        /\ Lookup(fsNode, NormalizedCandidate) = Node("file", Ceiling, FALSE)) =>
          pathOut.kind = "return"

\* /repo/link/f.cif was returned as /etc/f.cif, a 7-byte file, under the
\* caller-supplied root /repo/link
C6_Witness ==
    /\ pathCall.path_str = AbsPath(<<"repo", "link", "f.cif">>)
    /\ pathCall.allowed_roots.given
    /\ pathOut.kind = "return"
    /\ pathOut.path = EtcFile

\* the candidate leads to a regular file that could be statted
FoundFile ==
    /\ Normalizable
    /\ UnderSomeRoot(NormalizedCandidate)
    /\ Lookup(fsNode, NormalizedCandidate).kind = "file"
    /\ ~Lookup(fsNode, NormalizedCandidate).statErr

\* C7: a regular file larger than the ceiling is answered with
\* file_too_large whose details carry the actual size and the ceiling, so
\* size > max_bytes; with no ceiling from the caller or the environment a
\* file of 2,000,001 bytes gets max_bytes = 2000000.
C7_TooLargeDetails ==
    pathOut # NoPathOut =>
        /\ (FoundFile /\ Lookup(fsNode, NormalizedCandidate).size > Ceiling) =>
              /\ pathOut.kind = "error"
              /\ pathOut.error_type = "file_too_large"
        /\ pathOut.error_type = "file_too_large" =>
              /\ FoundFile
              /\ pathOut.details.size = Lookup(fsNode, NormalizedCandidate).size
              /\ pathOut.details.max_bytes = Ceiling
              /\ pathOut.details.size > pathOut.details.max_bytes
        /\ (/\ FoundFile
            /\ ~pathCall.max_bytes.given
            /\ ~environ.SKY_MCP_MAX_FILE_BYTES.set
            /\ Lookup(fsNode, NormalizedCandidate).size = 2000001) =>
              /\ pathOut.error_type = "file_too_large"
              /\ pathOut.details.max_bytes = 2000000

\* /repo/f.cif of 2,000,001 bytes was rejected under the built-in ceiling
C7_Witness ==
    /\ pathCall.path_str = AbsPath(VarFile)
    /\ ~pathCall.max_bytes.given
    /\ ~environ.SKY_MCP_MAX_FILE_BYTES.set
    /\ fsNode = Node("file", 2000001, FALSE)
    /\ pathOut.error_type = "file_too_large"
    /\ pathOut.details.max_bytes = 2000000

-----------------------------------------------------------------------------
(* Writer claims                                                           *)

\* C8: once atomic_write_text has returned, the target holds exactly the
\* content and no temporary file of the call is left.
C8_WrittenAndClean ==
    wPc = "returned" =>
        /\ wFiles.target = File(wContent)
        /\ wFiles.tmps = <<>>

\* "ab" has replaced a target that held other text
C8_Witness ==
    /\ wPc = "returned"
    /\ wContent = <<"a", "b">>
    /\ wOld = File(<<"b">>)

\* C9: every read of the final name sees the target as it was before the
\* call (absent, or its complete previous content) or the complete new
\* content.
C9_ReaderSeesOldOrNew ==
    /\ wFiles.target \in {wOld, File(wContent)}
    /\ readerSaw.read => readerSaw.file \in {wOld, File(wContent)}

\* a read took place while the temporary file held half of the content
C9_Witness ==
    /\ readerSaw.read
    /\ wPc = "write"
    /\ wContent = <<"a", "b">>
    /\ LastTmp(wFiles).data = <<"a">>
    /\ readerSaw.file = wOld
    /\ wOld # File(wContent)

\* C10: when atomic_write_text fails, the target is as it was before the
\* call and at most one temporary file of the call is left.
C10_FailureLeavesTarget ==
    wPc = "failed" =>
        /\ wFiles.target = wOld
        /\ Len(wFiles.tmps) <= 1

\* the call failed after half of the content reached the temporary file,
\* with a previous target in place
C10_Witness ==
    /\ wPc = "failed"
    /\ wOld = File(<<"b">>)
    /\ wContent = <<"a", "b">>
    /\ Len(wFiles.tmps) = 1
    /\ wFiles.tmps[1].data = <<"a">>

-----------------------------------------------------------------------------
(* report_io.py: _slugify and build_report_path                            *)
(* Strings are sequences of one-character strings.                         *)

MaxQueryLen == 4
PadLen == 48

UpperChars ==
    {"A", "B", "C", "D", "E", "F", "G", "H", "I", "J", "K", "L", "M",
     "N", "O", "P", "Q", "R", "S", "T", "U", "V", "W", "X", "Y", "Z"}
LowerChars ==
    {"a", "b", "c", "d", "e", "f", "g", "h", "i", "j", "k", "l", "m",
     "n", "o", "p", "q", "r", "s", "t", "u", "v", "w", "x", "y", "z"}

\* the character class [A-Za-z0-9_-]
SlugSafe(c) == c \in UpperChars \cup LowerChars \cup {"_", "-"} \/ IsDigit(c)

\* re.sub(r"[^A-Za-z0-9_-]+", "_", s): a left-to-right scan; each match is
\* a maximal run of characters outside the class (inMatch: the previous
\* character belongs to the match in progress)
RECURSIVE ReSub(_, _)
ReSub(s, inMatch) ==
    IF s = <<>> THEN <<>>
    ELSE IF SlugSafe(Head(s)) THEN <<Head(s)>> \o ReSub(Tail(s), FALSE)
    ELSE IF inMatch THEN ReSub(Tail(s), TRUE)
    ELSE <<"_">> \o ReSub(Tail(s), TRUE)

\* str.strip("_")
RECURSIVE LStripUnderscore(_)
LStripUnderscore(s) ==
    IF s # <<>> /\ Head(s) = "_" THEN LStripUnderscore(Tail(s)) ELSE s

RECURSIVE RStripUnderscore(_)
RStripUnderscore(s) ==
    IF s # <<>> /\ s[Len(s)] = "_"
    THEN RStripUnderscore(SubSeq(s, 1, Len(s) - 1)) ELSE s

\* s[:n]
SliceTo(s, n) == SubSeq(s, 1, IF Len(s) < n THEN Len(s) ELSE n)

SLUG_MAX_LEN == 50
QueryNone == <<"None">>
ReportLiteral == <<"r", "e", "p", "o", "r", "t">>
HtmlExt == <<".", "h", "t", "m", "l">>

\* truncation placed before the strip and the default
_slugify_truncate_first(text, max_len) ==
    LET cut == SliceTo(ReSub(IF text = QueryNone THEN <<>> ELSE text, FALSE),
                       max_len)
        slug == RStripUnderscore(LStripUnderscore(cut))
    IN IF slug = <<>> THEN ReportLiteral ELSE slug

_slugify(text, max_len) ==
    LET subbed == ReSub(IF text = QueryNone THEN <<>> ELSE text, FALSE)
        slug == RStripUnderscore(LStripUnderscore(subbed))
    IN SliceTo(IF slug = <<>> THEN ReportLiteral ELSE slug, max_len)

\* reports_dir / f"{slug}_{uid}.html"; uid is str(uuid_func())
build_report_path(query, reports_dir, uid) ==
    [dir |-> reports_dir,
     name |-> _slugify(query, SLUG_MAX_LEN) \o <<"_">> \o uid \o HtmlExt]

QueryChars == {"a", "_", "-", " ", "."}
QueriesOfLen(n) == [1..n -> QueryChars]
ShortQueries == UNION {QueriesOfLen(n) : n \in 0..MaxQueryLen}
Pad == [i \in 1..PadLen |-> "a"]
Fe2O3 == <<"F", "e", "2", "O", "3">>
Queries ==
    ShortQueries \cup {Pad \o s : s \in ShortQueries} \cup {Fe2O3, QueryNone}

FixedUuid == <<"f", "i", "x", "e", "d", "-", "u", "u", "i", "d">>
Uids == {FixedUuid, <<"0">>}
ReportDirs == {<<"sky_reports">>, <<"out", "reports">>}

ReportCall(query, reports_dir, uid) ==
    [query |-> query, dir |-> reports_dir, uid |-> uid]
NoReportCall == ReportCall(<<>>, <<>>, <<>>)
NoReport == [dir |-> <<>>, name |-> <<>>]

ReportInit ==
    /\ repCall \in {ReportCall(q, d, u) :
                        q \in Queries, d \in ReportDirs, u \in Uids}
    /\ repOut = NoReport

BuildReportPath ==
    /\ repCall # NoReportCall
    /\ repOut = NoReport
    /\ repOut' = build_report_path(repCall.query, repCall.dir, repCall.uid)
    /\ UNCHANGED <<repCall, coreVars, simVars, serverVars, lateVars>>

ReportNext == BuildReportPath

-----------------------------------------------------------------------------
(* Claim C11: the artifact path                                            *)

\* the slug as the claim words it: one "_" per character outside the class
PerCharacter(s) == [i \in 1..Len(s) |-> IF SlugSafe(s[i]) THEN s[i] ELSE "_"]

\* the slug with one "_" per maximal run of characters outside the class:
\* a character outside the class yields "_" only when it starts a run
StartsOutput(s, i) == SlugSafe(s[i]) \/ i = 1 \/ SlugSafe(s[i - 1])
RECURSIVE PerRun(_, _)
PerRun(s, i) ==
    IF i > Len(s) THEN <<>>
    ELSE (IF ~StartsOutput(s, i) THEN <<>>
          ELSE IF SlugSafe(s[i]) THEN <<s[i]>> ELSE <<"_">>) \o PerRun(s, i + 1)

\* trimming leading and trailing "_": the span between the first and the
\* last character that is not "_"
Trimmed(s) ==
    LET keep == {i \in 1..Len(s) : s[i] # "_"}
    IN IF keep = {} THEN <<>>
       ELSE SubSeq(s, CHOOSE i \in keep : \A j \in keep : i <= j,
                      CHOOSE i \in keep : \A j \in keep : j <= i)

Truncated(s) == [i \in 1..(IF Len(s) > 50 THEN 50 ELSE Len(s)) |-> s[i]]
OrReport(s) == IF s = <<>> THEN ReportLiteral ELSE s

ExpectedPath(slug) ==
    [dir |-> repCall.dir, name |-> slug \o <<"_">> \o repCall.uid \o HtmlExt]

ReportBuilt == repOut # NoReport /\ repCall.query # QueryNone

\* C11 as stated: for every query string, identifier and directory the
\* result is directory / "<slug>_<id>.html" with the slug obtained by
\* replacing each character outside [A-Za-z0-9_-] by one "_", trimming "_",
\* truncating to 50 and defaulting to "report".
C11_SlugPerCharacter ==
    ReportBuilt =>
        repOut = ExpectedPath(OrReport(Truncated(Trimmed(
                                  PerCharacter(repCall.query)))))

\* C11 amended: the same with each maximal run of characters outside
\* [A-Za-z0-9_-] replaced by a single "_"; query "Fe2O3" with identifier
\* "fixed-uuid" under sky_reports gives "Fe2O3_fixed-uuid.html".
C11_SlugPerRun ==
    /\ ReportBuilt =>
           repOut = ExpectedPath(OrReport(Truncated(Trimmed(
                                     PerRun(repCall.query, 1)))))
    /\ (repOut # NoReport /\ repCall = ReportCall(Fe2O3, <<"sky_reports">>, FixedUuid))
           => repOut.name = Fe2O3 \o <<"_">> \o FixedUuid \o HtmlExt

\* a run of two spaces collapsed, and the slug cut at 50 characters
C11_Witness ==
    /\ repOut # NoReport
    /\ repCall.query = Pad \o <<"a", " ", " ", "a">>
    /\ Len(repOut.name) = 50 + 1 + Len(repCall.uid) + Len(HtmlExt)
    /\ repOut.name[50] = "_"

-----------------------------------------------------------------------------
(* Claim C12: credentials                                                  *)

NeedsMpKey == {"get_material_properties", "recursive_synthesis_search"}
NeedsOpenAiKey == {"discover_synthesis_report"}

\* the argument gets past the handler's own argument checks
PassesValidation(c) ==
    CASE c.op = "get_material_properties" -> c.arg \notin {"none", "empty"}
      [] c.op = "recursive_synthesis_search" -> c.arg = "valid"
      [] OTHER -> TRUE

AbsentOrEmpty(value) == ~value.set \/ Len(value.val) = 0

CredentialMissing(c) ==
    IF c.op \in NeedsMpKey THEN AbsentOrEmpty(c.mpKey)
    ELSE AbsentOrEmpty(c.openaiKey.mdg) /\ AbsentOrEmpty(c.openaiKey.plain)

\* the missing_env envelope built by the handler's environment check, which
\* precedes the import and the call of the remote client or agent
MissingEnvMessage(op) ==
    IF op \in NeedsMpKey THEN "MP_API_KEY not found in environment."
    ELSE "OPENAI_API_KEY or OPENAI_MDG_API_KEY not found in environment."

RefusedForMissingEnv ==
    /\ toolOut.kind = "return"
    /\ toolOut.resp.ok = PyFalse
    /\ toolOut.resp.error.type = PyStr("missing_env")
    /\ toolOut.resp.error.message = PyStr(MissingEnvMessage(toolCall.op))

CredentialCall ==
    /\ toolOut # NoOut
    /\ toolCall.op \in NeedsMpKey \cup NeedsOpenAiKey
    /\ PassesValidation(toolCall)

\* recursive_synthesis_search looks up its embedding asset before the
\* environment
AssetCheckedFirst(c) == c.op = "recursive_synthesis_search" /\ c.asset # "found"

\* C12 as stated: a credential-needing operation invoked with input that
\* passes its validation while its credential is absent or empty returns
\* ok=false, error.type missing_env, without calling the collaborator
\* (stated of the calls that return an envelope).
C12_MissingEnvWheneverValid ==
    (CredentialCall /\ CredentialMissing(toolCall) /\ toolOut.kind = "return")
        => RefusedForMissingEnv

\* C12 amended: the same, for recursive_synthesis_search provided its
\* composition embedding asset is found; and a credential that is present
\* with any non-empty value is never refused as missing_env by the check.
C12_MissingEnvAfterAsset ==
    /\ (CredentialCall /\ CredentialMissing(toolCall)
            /\ ~AssetCheckedFirst(toolCall)) => RefusedForMissingEnv
    /\ (CredentialCall /\ ~CredentialMissing(toolCall)) => ~RefusedForMissingEnv

\* an empty MP_API_KEY refuses a search whose collaborator would succeed
C12_Witness ==
    /\ toolCall.op = "recursive_synthesis_search"
    /\ toolCall.arg = "valid" /\ toolCall.asset = "found"
    /\ toolCall.collab = "ok"
    /\ toolCall.mpKey = SetTo(<<>>)
    /\ RefusedForMissingEnv

-----------------------------------------------------------------------------
(* tools.py: ranking of the neighbors returned by SearchAPI.query          *)

MaxNeighbors == 3

\* str < str compares code points, then length; the characters used here
\* in code-point order
CodePointOrder == <<"-", "0", "1", "2", "C", "F", "N", "O", "a", "e", "l", "m", "p">>
CodePoint(c) == CHOOSE i \in 1..Len(CodePointOrder) : CodePointOrder[i] = c

RECURSIVE StrLess(_, _)
StrLess(a, b) ==
    IF b = <<>> THEN FALSE
    ELSE IF a = <<>> THEN TRUE
    ELSE IF Head(a) = Head(b) THEN StrLess(Tail(a), Tail(b))
    ELSE CodePoint(Head(a)) < CodePoint(Head(b))

Neighbor(distance, material_id, formula) ==
    [distance |-> distance, material_id |-> material_id, formula |-> formula]

\* sort key without the formula
KeyLessNoFormula(a, b) ==
    \/ a.distance < b.distance
    \/ a.distance = b.distance /\ StrLess(a.material_id, b.material_id)

\* key(a) < key(b) for key = lambda n: (n.distance, n.material_id, n.formula)
KeyLess(a, b) ==
    \/ a.distance < b.distance
    \/ /\ a.distance = b.distance
       /\ \/ StrLess(a.material_id, b.material_id)
          \/ /\ a.material_id = b.material_id
             /\ StrLess(a.formula, b.formula)

\* sorted(): stable; x goes before the first element whose key is greater
RECURSIVE InsertByKey(_, _)
InsertByKey(x, s) ==
    IF s = <<>> THEN <<x>>
    ELSE IF KeyLess(x, Head(s)) THEN <<x>> \o s
    ELSE <<Head(s)>> \o InsertByKey(x, Tail(s))

RECURSIVE SortedByKey(_, _)
SortedByKey(todo, done) ==
    IF todo = <<>> THEN done
    ELSE SortedByKey(Tail(todo), InsertByKey(Head(todo), done))

\* 1.0 / (1.0 + float(distance)) as the fraction <<1, 1 + distance>>
_derived_similarity(distance) == <<1, 1 + distance>>

\* the loop over enumerate(neighbors, start=1)
NeighborResults(neighbors) ==
    [idx \in 1..Len(neighbors) |->
        [rank |-> idx,
         material_id |-> neighbors[idx].material_id,
         formula |-> neighbors[idx].formula,
         distance |-> neighbors[idx].distance,
         similarity |-> _derived_similarity(neighbors[idx].distance)]]

\* data and provenance of the ok envelope of a similarity search
SearchOutput(tool_name, records) ==
    LET results == NeighborResults(SortedByKey(records, <<>>)) IN
    [tool |-> tool_name,
     num_results |-> Len(results),
     neighbors |-> results,
     ids |-> [i \in 1..Len(results) |-> results[i].material_id]]

Distances == 0..1
MaterialIds == {<<"m", "p", "-", "2">>, <<"m", "p", "-", "1", "0">>}
Formulas == {<<"N", "a", "C", "l">>, <<"F", "e", "2", "O">>}
NeighborRecords ==
    {Neighbor(d, m, f) : d \in Distances, m \in MaterialIds, f \in Formulas}
RecordLists == UNION {[1..n -> NeighborRecords] : n \in 0..MaxNeighbors}
SearchOps ==
    {"search_similar_by_composition", "search_similar_by_structure_cif",
     "search_similar_by_structure_path"}

SimCall(op, records) == [op |-> op, records |-> records]
NoSimCall == SimCall("none", <<>>)
NoSimOut == [tool |-> "none", num_results |-> 0, neighbors |-> <<>>, ids |-> <<>>]

SimInit ==
    /\ simCall \in {SimCall(op, r) : op \in SearchOps, r \in RecordLists}
    /\ simOut = NoSimOut

SimPending(op) == simCall.op = op /\ simOut = NoSimOut
SimUntouched ==
    UNCHANGED <<simCall, coreVars, reportVars, serverVars, lateVars>>

CompositionNeighbors ==
    /\ SimPending("search_similar_by_composition")
    /\ simOut' = SearchOutput("search_similar_by_composition", simCall.records)
    /\ SimUntouched

StructureCifNeighbors ==
    /\ SimPending("search_similar_by_structure_cif")
    /\ simOut' = SearchOutput("search_similar_by_structure_cif", simCall.records)
    /\ SimUntouched

StructurePathNeighbors ==
    /\ SimPending("search_similar_by_structure_path")
    /\ simOut' = SearchOutput("search_similar_by_structure_path", simCall.records)
    /\ SimUntouched

SimNext == CompositionNeighbors \/ StructureCifNeighbors \/ StructurePathNeighbors

-----------------------------------------------------------------------------
(* Claim C13: neighbor order                                               *)

\* a precedes-or-equals b in (distance, material_id, formula) order
RECURSIVE StrLeq(_, _)
StrLeq(a, b) ==
    \/ a = <<>>
    \/ /\ b # <<>>
       /\ \/ CodePoint(a[1]) < CodePoint(b[1])
          \/ a[1] = b[1] /\ StrLeq(Tail(a), Tail(b))

Ascending(a, b) ==
    IF a.distance # b.distance THEN a.distance < b.distance
    ELSE IF a.material_id # b.material_id THEN StrLeq(a.material_id, b.material_id)
    ELSE StrLeq(a.formula, b.formula)

Reorderings(s) ==
    {[i \in 1..Len(s) |-> s[p[i]]] :
        p \in {q \in [1..Len(s) -> 1..Len(s)] :
                  \A i, j \in 1..Len(s) : i # j => q[i] # q[j]}}

SimDone == simOut # NoSimOut

\* C13: in the ok envelope of each of the three searches the neighbors are
\* ascending by (distance, material_id, formula), rank is 1..n, ids lists
\* the material_ids in that order, the output holds exactly the
\* collaborator's records, and every permutation of the records gives the
\* same output.
C13_NeighborsSorted ==
    SimDone =>
        LET out == simOut.neighbors
            n == Len(simCall.records)
        IN /\ Len(out) = n /\ simOut.num_results = n
           /\ \A i \in 1..n : out[i].rank = i
           /\ \A i \in 1..n : \A j \in 1..n : i < j => Ascending(out[i], out[j])
           /\ simOut.ids = [i \in 1..n |-> out[i].material_id]
           /\ \A r \in NeighborRecords :
                 Cardinality({i \in 1..n : simCall.records[i] = r})
                 = Cardinality({i \in 1..n :
                       Neighbor(out[i].distance, out[i].material_id,
                                out[i].formula) = r})
           /\ \A p \in Reorderings(simCall.records) :
                 SearchOutput(simCall.op, p) = simOut

\* records given in descending order that differ only in the formula, and
\* "mp-10" sorting before "mp-2"
C13_Witness ==
    /\ SimDone
    /\ simCall.records =
          << Neighbor(0, <<"m", "p", "-", "2">>, <<"N", "a", "C", "l">>),
             Neighbor(0, <<"m", "p", "-", "1", "0">>, <<"N", "a", "C", "l">>),
             Neighbor(0, <<"m", "p", "-", "1", "0">>, <<"F", "e", "2", "O">>) >>
    /\ simOut.ids = << <<"m", "p", "-", "1", "0">>, <<"m", "p", "-", "1", "0">>,
                       <<"m", "p", "-", "2">> >>
    /\ simOut.neighbors[1].formula = <<"F", "e", "2", "O">>

-----------------------------------------------------------------------------
(* sky_mcp/server.py: the registry and the dispatcher                      *)

ToolDef(name, description) ==
    [name |-> name, func |-> "tools." \o name, description |-> description]

TOOL_DEFS ==
    << ToolDef("capabilities",
               "Report available assets, env vars, and versions."),
       ToolDef("search_similar_by_composition",
               "Find similar materials by composition."),
       ToolDef("search_similar_by_structure_cif",
               "Find similar materials by CIF text (canonical)."),
       ToolDef("search_similar_by_structure_path",
               "Find similar materials by CIF file path (local-only)."),
       ToolDef("read_cif", "Read CIF text and return structure metadata."),
       ToolDef("read_cif_path",
               "Read CIF file path and return structure metadata (local-only)."),
       ToolDef("get_material_properties", "Fetch Materials Project properties."),
       ToolDef("get_synthesis_recipes",
               "Retrieve synthesis recipes for a formula."),
       ToolDef("analyze_synthesis_parameters",
               "Extract synthesis parameters from text."),
       ToolDef("recursive_synthesis_search",
               "Recursive synthesis search using similarity neighbors."),
       ToolDef("discover_synthesis_report",
               "Expensive, networked, nondeterministic synthesis report."),
       ToolDef("self_check", "Run deterministic checks for MCP readiness.") >>

\* a registry to which a descriptor reusing the name "read_cif" was added
DuplicateDefs ==
    Append(TOOL_DEFS,
           [name |-> "read_cif", func |-> "tools.read_cif_path",
            description |-> "Read CIF file path."])

Registries == {TOOL_DEFS, DuplicateDefs}

\* The tool attribute of a backend object, by its signature:
\*   "named"          tool(name=None, description=None)
\*   "positional"     tool() with no parameter called name
\*   "uninspectable"  inspect.signature raises TypeError or ValueError
\*   "name_only"      tool(name=None): no description parameter
\*   "kwargs"         tool(*args, **kwargs): no parameter called name
\*   "absent"         the object has no attribute tool
ToolKinds ==
    {"named", "positional", "uninspectable", "name_only", "kwargs", "absent"}

_supports_named(tool_func) == tool_func \in {"named", "name_only"}

\* the factory call of one loop iteration: what is passed to the backend
NotPassed == "<not passed>"
DecoratorCallAlwaysNamed(supports_named, def) ==
    [func |-> def.func, name |-> def.name, description |-> def.description]

DecoratorCall(supports_named, def) ==
    IF supports_named
    THEN [func |-> def.func, name |-> def.name, description |-> def.description]
    ELSE [func |-> def.func, name |-> NotPassed, description |-> NotPassed]

\* the backend takes the call (a TypeError otherwise)
BackendAccepts(kind, call) ==
    IF call.name = NotPassed
    THEN kind \in {"named", "positional", "uninspectable", "kwargs"}
    ELSE kind \in {"named", "uninspectable", "kwargs"}

\* main(): what follows fastmcp_runner() when the return is left out
AfterFastRunFallsThrough(raised) == IF raised THEN "raised" ELSE "anyio"

\* main(): fastmcp_runner() then return
AfterFastRun(raised) == IF raised THEN "raised" ELSE "returned"

ServerInit ==
    /\ toolDefs \in Registries
    /\ srvPc = "main"
    /\ srvTool = "none" /\ srvNamed = FALSE
    /\ fastTools = <<>> /\ stdioTools = <<>> /\ srvLog = <<>>

SrvOthers ==
    UNCHANGED <<toolDefs, coreVars, reportVars, simVars, lateVars>>

\* _try_fastmcp: from mcp.server.fastmcp import FastMCP
ImportFastMCP ==
    /\ srvPc = "main"
    /\ \E ok \in BOOLEAN : srvPc' = IF ok THEN "fast_ctor" ELSE "anyio"
    /\ UNCHANGED <<srvTool, srvNamed, fastTools, stdioTools, srvLog>>
    /\ SrvOthers

\* _try_fastmcp: mcp = FastMCP("sky")
ConstructFastMCP ==
    /\ srvPc = "fast_ctor"
    /\ \/ /\ srvPc' = "fast_detect"
          /\ srvTool' \in ToolKinds
          /\ srvLog' = Append(srvLog, "fastmcp.init")
       \/ /\ srvPc' = "anyio"
          /\ UNCHANGED <<srvTool, srvLog>>
    /\ UNCHANGED <<srvNamed, fastTools, stdioTools>>
    /\ SrvOthers

\* _try_fastmcp: _register_tools(mcp.tool), up to the loop
DetectFast ==
    /\ srvPc = "fast_detect"
    /\ IF srvTool = "absent"
       THEN srvPc' = "anyio" /\ UNCHANGED srvNamed
       ELSE srvPc' = "fast_reg" /\ srvNamed' = _supports_named(srvTool)
    /\ UNCHANGED <<srvTool, fastTools, stdioTools, srvLog>>
    /\ SrvOthers

\* one iteration of the loop of _register_tools on the FastMCP object; an
\* exception is caught by _try_fastmcp, which drops mcp with its frame
RegisterFast ==
    /\ srvPc = "fast_reg"
    /\ Len(fastTools) < Len(toolDefs)
    /\ LET call == DecoratorCall(srvNamed, toolDefs[Len(fastTools) + 1]) IN
       \/ /\ BackendAccepts(srvTool, call)
          /\ fastTools' = Append(fastTools, call)
          /\ UNCHANGED srvPc
       \/ /\ fastTools' = <<>>
          /\ srvPc' = "anyio"
    /\ UNCHANGED <<srvTool, srvNamed, stdioTools, srvLog>>
    /\ SrvOthers

\* the loop ends, _try_fastmcp returns _run, main calls it: mcp.run()
RunFast ==
    /\ srvPc = "fast_reg"
    /\ Len(fastTools) = Len(toolDefs)
    /\ srvLog' = Append(srvLog, "fastmcp.run")
    /\ srvPc' = "fast_running"
    /\ UNCHANGED <<srvTool, srvNamed, fastTools, stdioTools>>
    /\ SrvOthers

\* mcp.run() returns or raises
FastRunEnds ==
    /\ srvPc = "fast_running"
    /\ \E raised \in BOOLEAN : srvPc' = AfterFastRun(raised)
    /\ UNCHANGED <<srvTool, srvNamed, fastTools, stdioTools, srvLog>>
    /\ SrvOthers

\* main: import anyio
ImportAnyio ==
    /\ srvPc = "anyio"
    /\ \E ok \in BOOLEAN : srvPc' = IF ok THEN "stdio_import" ELSE "raised"
    /\ UNCHANGED <<srvTool, srvNamed, fastTools, stdioTools, srvLog>>
    /\ SrvOthers

\* _run_stdio: from mcp.server import Server; from mcp.server.stdio import ...
ImportStdio ==
    /\ srvPc = "stdio_import"
    /\ \E ok \in BOOLEAN : srvPc' = IF ok THEN "stdio_ctor" ELSE "raised"
    /\ UNCHANGED <<srvTool, srvNamed, fastTools, stdioTools, srvLog>>
    /\ SrvOthers

\* _run_stdio: server = Server("sky")
ConstructServer ==
    /\ srvPc = "stdio_ctor"
    /\ \/ /\ srvPc' = "stdio_detect"
          /\ srvTool' \in ToolKinds
          /\ srvLog' = Append(srvLog, "stdio.init")
       \/ /\ srvPc' = "raised"
          /\ UNCHANGED <<srvTool, srvLog>>
    /\ UNCHANGED <<srvNamed, fastTools, stdioTools>>
    /\ SrvOthers

\* _run_stdio: _register_tools(server.tool), up to the loop
DetectStdio ==
    /\ srvPc = "stdio_detect"
    /\ IF srvTool = "absent"
       THEN srvPc' = "raised" /\ UNCHANGED srvNamed
       ELSE srvPc' = "stdio_reg" /\ srvNamed' = _supports_named(srvTool)
    /\ UNCHANGED <<srvTool, fastTools, stdioTools, srvLog>>
    /\ SrvOthers

\* one iteration of the loop of _register_tools on the Server object
RegisterStdio ==
    /\ srvPc = "stdio_reg"
    /\ Len(stdioTools) < Len(toolDefs)
    /\ LET call == DecoratorCall(srvNamed, toolDefs[Len(stdioTools) + 1]) IN
       \/ /\ BackendAccepts(srvTool, call)
          /\ stdioTools' = Append(stdioTools, call)
          /\ UNCHANGED srvPc
       \/ /\ srvPc' = "raised"
          /\ UNCHANGED stdioTools
    /\ UNCHANGED <<srvTool, srvNamed, fastTools, srvLog>>
    /\ SrvOthers

\* _run_stdio: async with stdio_server() as (read, write): server.run(...)
RunStdio ==
    /\ srvPc = "stdio_reg"
    /\ Len(stdioTools) = Len(toolDefs)
    /\ \/ /\ srvLog' = Append(srvLog, "stdio.run")
          /\ srvPc' = "stdio_running"
       \/ /\ srvPc' = "raised"
          /\ UNCHANGED srvLog
    /\ UNCHANGED <<srvTool, srvNamed, fastTools, stdioTools>>
    /\ SrvOthers

\* server.run returns or raises; anyio.run and main end the same way
StdioRunEnds ==
    /\ srvPc = "stdio_running"
    /\ \E raised \in BOOLEAN : srvPc' = IF raised THEN "raised" ELSE "returned"
    /\ UNCHANGED <<srvTool, srvNamed, fastTools, stdioTools, srvLog>>
    /\ SrvOthers

ServerNext ==
    \/ ImportFastMCP
    \/ ConstructFastMCP
    \/ DetectFast
    \/ RegisterFast
    \/ RunFast
    \/ FastRunEnds
    \/ ImportAnyio
    \/ ImportStdio
    \/ ConstructServer
    \/ DetectStdio
    \/ RegisterStdio
    \/ RunStdio
    \/ StdioRunEnds

-----------------------------------------------------------------------------
(* Claim C14: backend order in main()                                      *)

Logged(event) == \E i \in 1..Len(srvLog) : srvLog[i] = event
MainEnded == srvPc \in {"returned", "raised"}
StdioStage ==
    srvPc \in {"anyio", "stdio_import", "stdio_ctor", "stdio_detect",
               "stdio_reg", "stdio_running"}
AllRegistered(tools) == Len(tools) = Len(toolDefs)

\* C14: FastMCP is tried first and run iff its import, construction and the
\* registration of all tools succeeded; after a failure nothing stays
\* registered on it and the stdio Server is initialised with the full tool
\* list and run, or main() ends by raising; at most one backend is run, and
\* once FastMCP was started the stdio Server is never initialised, even
\* when the FastMCP run fails.
C14_BackendOrder ==
    /\ Logged("fastmcp.run") =>
           AllRegistered(fastTools) /\ srvLog = <<"fastmcp.init", "fastmcp.run">>
    /\ (MainEnded /\ AllRegistered(fastTools)) => Logged("fastmcp.run")
    /\ (StdioStage \/ Logged("stdio.init")) =>
           fastTools = <<>> /\ ~Logged("fastmcp.run")
    /\ Logged("stdio.run") => AllRegistered(stdioTools)
    /\ (MainEnded /\ ~Logged("fastmcp.run") /\ ~Logged("stdio.run")) =>
           srvPc = "raised"
    /\ (MainEnded /\ ~AllRegistered(fastTools) /\ AllRegistered(stdioTools)
            /\ srvPc = "returned") => Logged("stdio.run")
    /\ ~(Logged("fastmcp.run") /\ Logged("stdio.run"))
    /\ Cardinality({i \in 1..Len(srvLog) :
                       srvLog[i] \in {"fastmcp.run", "stdio.run"}}) <= 1
    /\ Logged("fastmcp.run") => stdioTools = <<>> /\ ~Logged("stdio.init")

\* FastMCP was constructed, its registration failed part-way, and the stdio
\* Server was then registered in full and run
C14_Witness ==
    /\ srvLog = <<"fastmcp.init", "stdio.init", "stdio.run">>
    /\ fastTools = <<>>
    /\ AllRegistered(stdioTools)
    /\ srvPc = "returned"

\* the FastMCP run failed: main() raised and the stdio Server was never
\* initialised
C14_WitnessFastRunFails ==
    /\ srvLog = <<"fastmcp.init", "fastmcp.run">>
    /\ srvPc = "raised"
    /\ stdioTools = <<>>

-----------------------------------------------------------------------------
(* Claim C19: _register_tools                                              *)

\* what a backend of the given kind is to receive for a descriptor
ExpectedRegistration(kind, def) ==
    IF kind = "named"
    THEN [func |-> def.func, name |-> def.name, description |-> def.description]
    ELSE [func |-> def.func, name |-> NotPassed, description |-> NotPassed]

RegisteredInOrder(tools) ==
    /\ Len(tools) <= Len(toolDefs)
    /\ \A i \in 1..Len(tools) : tools[i] = ExpectedRegistration(srvTool, toolDefs[i])

\* C19: on either backend the registrations made so far are the first
\* descriptors of the registry, one each, in declared order, with name and
\* description when the backend's tool function has a parameter called
\* name and with the callable alone when it has none or cannot be
\* inspected; when _register_tools has returned, every descriptor is
\* registered.
C19_RegisteredOnceInOrder ==
    /\ RegisteredInOrder(fastTools)
    /\ RegisteredInOrder(stdioTools)
    /\ srvPc \in {"fast_running"} => AllRegistered(fastTools)
    /\ srvPc \in {"stdio_running"} => AllRegistered(stdioTools)
    /\ (fastTools # <<>> \/ stdioTools # <<>>) =>
           srvNamed = (srvTool = "named")

\* all descriptors registered by callable only on a backend whose tool
\* function cannot be inspected
C19_Witness ==
    /\ srvPc = "stdio_running"
    /\ srvTool = "uninspectable"
    /\ AllRegistered(stdioTools)
    /\ toolDefs = TOOL_DEFS
    /\ stdioTools[12].func = "tools.self_check"
    /\ stdioTools[12].name = NotPassed

-----------------------------------------------------------------------------
(* Claim C20: uniqueness of descriptor names                               *)

NamesUnique(defs) ==
    \A i, j \in 1..Len(defs) : i # j => defs[i].name # defs[j].name

\* C20: the names of the registry are unique, and a descriptor list with
\* two descriptors of the same name is rejected at registration: no backend
\* ever holds registrations for two descriptors with the same name.
C20_DuplicateNamesRejected ==
    /\ NamesUnique(TOOL_DEFS)
    /\ \A tools \in {fastTools, stdioTools} :
          \A i, j \in 1..Len(tools) :
              i # j => toolDefs[i].name # toolDefs[j].name

-----------------------------------------------------------------------------
(* Claims C15 to C18: the checks of resolve_local_path                     *)

PathOutcome ==
    IF pathOut.kind = "return" THEN "return"
    ELSE IF pathOut.kind = "error" THEN pathOut.error_type
    ELSE "raised " \o pathOut.exc

\* the outcomes the ordered checks of the claim allow; a path whose stat
\* fails is either taken as missing or reported as a stat failure
OrderedCheckOutcomes ==
    LET found == Lookup(fsNode, NormalizedCandidate) IN
    IF pathCall.path_str.kind \in {"empty", "blank"} THEN {"invalid_input"}
    ELSE IF ~UnderSomeRoot(NormalizedCandidate) THEN {"permission_denied"}
    ELSE IF found.kind = "unstattable" THEN {"file_not_found", "runtime_error"}
    ELSE IF found.kind = "absent" THEN {"file_not_found"}
    ELSE IF found.kind # "file" THEN {"invalid_input"}
    ELSE IF found.statErr THEN {"runtime_error"}
    ELSE IF found.size > Ceiling THEN {"file_too_large"}
    ELSE {"return"}

\* C15: the checks are applied in the order empty input, containment,
\* existence, regular file, stat, size, and the first that fails decides
\* the typed error; otherwise the path is returned.
C15_FirstFailingCheckWins ==
    (pathOut # NoPathOut
        /\ (pathCall.path_str.kind \in {"empty", "blank"} \/ Normalizable))
    => PathOutcome \in OrderedCheckOutcomes

\* expansion or normalisation raises for the candidate or for a root
NormalizationRaises ==
    /\ pathCall.path_str.kind \notin {"none", "empty", "blank"}
    /\ \/ ~ExpandUser(pathCall.path_str).ok
       \/ ~ResolvePath(ExpandUser(pathCall.path_str).p).ok
       \/ ~ResolveRoots(CallRoots).ok

\* C16: when expanding "~" or normalising raises, for the candidate or for
\* a root, the call fails with the typed error invalid_input; no untyped
\* exception of expansion or normalisation leaves resolve_local_path.
C16_NormalizationFailureIsInvalidInput ==
    (pathOut # NoPathOut /\ NormalizationRaises) =>
        pathOut.kind = "error" /\ pathOut.error_type = "invalid_input"

\* the integer a value of SKY_MCP_MAX_FILE_BYTES denotes, if any
EnvInteger(value) ==
    CASE value = SetTo(<<"0">>) -> [int |-> TRUE, n |-> 0]
      [] value = SetTo(<<"-", "3">>) -> [int |-> TRUE, n |-> 0 - 3]
      [] value = SetTo(<<"7">>) -> [int |-> TRUE, n |-> 7]
      [] value = SetTo(<<" ", "8", " ">>) -> [int |-> TRUE, n |-> 8]
      [] value = SetTo(<<"+", "9">>) -> [int |-> TRUE, n |-> 9]
      [] OTHER -> [int |-> FALSE, n |-> 0]

ClaimedCeiling ==
    LET e == EnvInteger(environ.SKY_MCP_MAX_FILE_BYTES) IN
    IF pathCall.max_bytes.given THEN pathCall.max_bytes.val
    ELSE IF e.int /\ e.n > 0 THEN e.n
    ELSE 2000000

\* C17: the ceiling a file is measured against is the caller's max_bytes
\* when given, else SKY_MCP_MAX_FILE_BYTES when it is an integer above
\* zero, else 2,000,000: a statted regular file under a root is returned
\* iff its size is at most that ceiling and is otherwise refused as
\* file_too_large with max_bytes equal to it.
C17_EffectiveCeiling ==
    (pathOut # NoPathOut /\ FoundFile) =>
        LET size == Lookup(fsNode, NormalizedCandidate).size IN
        /\ (pathOut.kind = "return") = (size <= ClaimedCeiling)
        /\ (pathOut.kind = "error" /\ pathOut.error_type = "file_too_large")
               = (size > ClaimedCeiling)
        /\ pathOut.kind = "error" => pathOut.details.max_bytes = ClaimedCeiling

\* SKY_MCP_MAX_FILE_BYTES = "0" and no caller ceiling: a file of 2,000,000
\* bytes is returned
C17_Witness ==
    /\ environ.SKY_MCP_MAX_FILE_BYTES = SetTo(<<"0">>)
    /\ ~pathCall.max_bytes.given
    /\ FoundFile
    /\ Lookup(fsNode, NormalizedCandidate).size = 2000000
    /\ pathOut.kind = "return"

\* the root set as the claim gives it
ClaimedRoots ==
    LET extra == environ.SKY_MCP_ALLOWED_ROOTS.val
        nonBlank == {i \in 1..Len(extra) : extra[i].kind # "blank"}
    IN IF pathCall.allowed_roots.given
       THEN {pathCall.allowed_roots.val[i] :
                i \in 1..Len(pathCall.allowed_roots.val)}
       ELSE {AbsPath(REPO_ROOT), AbsPath(ASSETS_DIR), AbsPath(CWD)}
            \cup {extra[i] : i \in nonBlank}

CandidateNormalizable ==
    /\ pathCall.path_str.kind = "path"
    /\ ExpandUser(pathCall.path_str).ok
    /\ ResolvePath(ExpandUser(pathCall.path_str).p).ok

Admissible ==
    \E root \in ClaimedRoots :
        /\ ExpandUser(root).ok
        /\ ResolvePath(ExpandUser(root).p).ok
        /\ UnderRoot(NormalizedCandidate, ResolvePath(ExpandUser(root).p).path)

\* C18: the roots are the caller's when given, else the repository root,
\* the asset root, the working directory and the non-blank entries of
\* SKY_MCP_ALLOWED_ROOTS; the candidate passes the containment check iff it
\* is under at least one of them, and the outcome is the same for every
\* order of the roots.
C18_RootSetDecides ==
    (pathOut # NoPathOut /\ CandidateNormalizable) =>
        /\ ~Admissible => PathOutcome = "permission_denied"
        /\ Admissible =>
               PathOutcome \in {"return", "file_not_found", "invalid_input",
                                "runtime_error", "file_too_large",
                                "raised OSError"}
        /\ \A order \in Reorderings(CallRoots) :
               LET again == resolve_local_path(pathCall.path_str, Given(order),
                                pathCall.max_bytes, environ, fsNode)
               IN again.kind = pathOut.kind
                  /\ again.error_type = pathOut.error_type
                  /\ again.path = pathOut.path

-----------------------------------------------------------------------------
(* validate_envelope called directly on an arbitrary value                 *)

\* values offered in the "ok" slot: the two booleans and non-booleans
OkValues ==
    { PyTrue, PyFalse, PyNone, PyVal("int", "1"), PyVal("int", "0"),
      PyStr("yes") }

ErrKeySets == { ErrKeys, ErrKeys \cup {"hint"}, ErrKeys \ {"details"} }

ErrTypeValues ==
    { PyStr("runtime_error"), PyStr("bogus"), PyNone, PyVal("list", "['x']") }

\* None, a non-dict, and dicts with three, four or two of the error fields
ErrorValues ==
    { NoError, [NoError EXCEPT !.t = "str"] }
    \cup { [ErrorDict(type, PyStr("m"), PyNone) EXCEPT !.keys = keys] :
             type \in ErrTypeValues, keys \in ErrKeySets }

EnvKeySets == { EnvKeys, EnvKeys \ {"meta"}, EnvKeys \cup {"extra"} }

RespValues ==
    { [isdict |-> TRUE, keys |-> keys, ok |-> ok, data |-> data,
       error |-> error, meta |-> meta, provenance |-> provenance] :
        keys \in EnvKeySets, ok \in OkValues,
        data \in {PyNone, PyStr("payload")}, error \in ErrorValues,
        meta \in {EmptyDict, PyNone, PyVal("list", "[]")},
        provenance \in {EmptyDict, PyNone} }
    \cup { [NoResp EXCEPT !.isdict = FALSE] }

ValCall(resp, strict) == [resp |-> resp, strict |-> strict]

NoValCall == ValCall(NoResp, FALSE)

ValidateInit ==
    /\ valCall \in { ValCall(resp, strict) :
                       resp \in RespValues, strict \in BOOLEAN }
    /\ valOut = NoOut

ValidateEnvelope ==
    /\ valOut = NoOut
    /\ valOut' = validate_envelope(valCall.resp, valCall.strict)
    /\ UNCHANGED <<valCall, coreVars, reportVars, simVars, serverVars,
                   sessionVars, writersVars>>

ValidateNext == ValidateEnvelope

\* the envelope invariants of the data model, stated on the value: ok is a
\* boolean, meta and provenance are mappings, ok=true implies error is null,
\* ok=false implies data is null, and an error that is present has exactly
\* the fields type, message, details with type in the closed set
DataModelValid(resp) ==
    /\ resp.isdict
    /\ EnvKeys \subseteq resp.keys
    /\ resp.ok \in {PyTrue, PyFalse}
    /\ IsDict(resp.meta)
    /\ IsDict(resp.provenance)
    /\ resp.ok = PyTrue => resp.error.t = "none"
    /\ resp.ok = PyFalse => resp.data.t = "none"
    /\ resp.error.t # "none" =>
          /\ resp.error.t = "dict"
          /\ resp.error.keys = ErrKeys
          /\ resp.error.type.t = "str"
          /\ resp.error.type.v \in ALLOWED_ERROR_TYPES

ValidateDone == valOut # NoOut

\* C21: validate_envelope returns its argument unchanged only if the value
\* satisfies every envelope invariant of the data model; every other value
\* is rejected: an exception with strict=True, the runtime_error substitute
\* with strict=False.
C21_AcceptsOnlyValid ==
    (ValidateDone /\ ~DataModelValid(valCall.resp)) =>
        IF valCall.strict
        THEN valOut.kind = "raise"
        ELSE /\ valOut.kind = "return"
             /\ valOut.resp # valCall.resp
             /\ IsSubstitute(valOut.resp)

-----------------------------------------------------------------------------
(* A process that calls resolve_local_path repeatedly while its            *)
(* environment is changed between the calls                                *)

MaxCalls == 2

\* the environment the getenv calls of one invocation read, given the
\* environment of every earlier invocation: a value kept from the first
\* invocation on
EnvAtFirstCall(current, earlier) ==
    IF earlier = <<>> THEN current ELSE earlier[1].env

\* os.getenv is called in the bodies of _parse_max_bytes and
\* _default_allowed_roots, so an invocation reads the current environment
EnvAtCall(current, earlier) == current

\* values SKY_MCP_ALLOWED_ROOTS takes during a session:
\* unset, "/etc", "~nouser/etc", "~nouser/etc:/etc"
SessionRootValues ==
    { Unset,
      SetTo(<<AbsPath(<<"etc">>)>>),
      SetTo(<<PathStr("path", "~nouser", <<"etc">>)>>),
      SetTo(<<PathStr("path", "~nouser", <<"etc">>), AbsPath(<<"etc">>)>>) }

\* values SKY_MCP_MAX_FILE_BYTES takes during a session: unset, "7", " 8 "
SessionMaxValues == { Unset, SetTo(<<"7">>), SetTo(<<" ", "8", " ">>) }

\* /etc/f.cif is outside the default roots; /repo/f.cif is inside them
SessionInit ==
    /\ pathCall \in { PathCall(AbsPath(p), NotGiven, NoLimit) :
                        p \in {EtcFile, VarFile} }
    /\ environ \in { Env(m, r) :
                       m \in SessionMaxValues, r \in SessionRootValues }
    /\ fsNode \in { Node("file", 8, FALSE), Node("absent", 0, FALSE),
                    Node("file", DEFAULT_MAX_FILE_BYTES + 1, FALSE) }
    /\ pathOut = NoPathOut
    /\ callLog = <<>>

SessionOthers ==
    UNCHANGED <<fsNode, pathCall, envVars, toolVars, writerVars, reportVars,
                simVars, serverVars, validateVars, writersVars>>

\* os.environ["SKY_MCP_ALLOWED_ROOTS"] is set, changed or deleted
SetAllowedRoots ==
    /\ \E r \in SessionRootValues \ {environ.SKY_MCP_ALLOWED_ROOTS} :
           environ' = [environ EXCEPT !.SKY_MCP_ALLOWED_ROOTS = r]
    /\ UNCHANGED <<pathOut, callLog>>
    /\ SessionOthers

\* os.environ["SKY_MCP_MAX_FILE_BYTES"] is set, changed or deleted
SetMaxFileBytes ==
    /\ \E m \in SessionMaxValues \ {environ.SKY_MCP_MAX_FILE_BYTES} :
           environ' = [environ EXCEPT !.SKY_MCP_MAX_FILE_BYTES = m]
    /\ UNCHANGED <<pathOut, callLog>>
    /\ SessionOthers

\* one more resolve_local_path(path_str) in the same process; callLog keeps
\* the environment at the call and the outcome
ResolveAgain ==
    /\ Len(callLog) < MaxCalls
    /\ pathOut' = resolve_local_path(pathCall.path_str, pathCall.allowed_roots,
                                     pathCall.max_bytes,
                                     EnvAtCall(environ, callLog), fsNode)
    /\ callLog' = Append(callLog, [env |-> environ, out |-> pathOut'])
    /\ UNCHANGED environ
    /\ SessionOthers

SessionNext == SetAllowedRoots \/ SetMaxFileBytes \/ ResolveAgain

-----------------------------------------------------------------------------
(* Session claim                                                           *)

\* the ceiling a value of SKY_MCP_MAX_FILE_BYTES stands for
CeilingFor(value) ==
    LET e == EnvInteger(value) IN IF e.int /\ e.n > 0 THEN e.n ELSE 2000000

\* the entries of SKY_MCP_ALLOWED_ROOTS in an environment
RootEntries(env) ==
    { env.SKY_MCP_ALLOWED_ROOTS.val[i] :
        i \in 1..Len(env.SKY_MCP_ALLOWED_ROOTS.val) }

\* every entry names a directory that can be expanded and normalised
RootsWellFormed(env) ==
    \A root \in RootEntries(env) :
        ExpandUser(root).ok /\ ResolvePath(ExpandUser(root).p).ok

\* the candidate lies under the directory an entry names
Covers(root) ==
    /\ ExpandUser(root).ok
    /\ ResolvePath(ExpandUser(root).p).ok
    /\ UnderRoot(NormalizedCandidate, ResolvePath(ExpandUser(root).p).path)

OutcomeOf(out) ==
    IF out.kind = "return" THEN "return"
    ELSE IF out.kind = "error" THEN out.error_type
    ELSE "raised " \o out.exc

CandidateSize == Lookup(fsNode, NormalizedCandidate).size

\* the candidate is a regular file no larger than the ceiling of env
FileFits(env) ==
    /\ Lookup(fsNode, NormalizedCandidate).kind = "file"
    /\ CandidateSize <= CeilingFor(env.SKY_MCP_MAX_FILE_BYTES)

\* C22: the sandbox configuration is read from the environment at each
\* resolve_local_path call and never cached: every call of a session has
\* the outcome the environment in force at that call gives; a path denied
\* for lying outside the roots is returned by the next call once a root
\* covering it has been added; a file returned under one ceiling is refused
\* by the next call once the ceiling is below its size, as file_too_large
\* with the new ceiling when the roots are unchanged.
C22_EnvReadAtEachCall ==
    /\ \A i \in 1..Len(callLog) :
           callLog[i].out =
               resolve_local_path(pathCall.path_str, NotGiven, NoLimit,
                                  callLog[i].env, fsNode)
    /\ \A i \in 1..(Len(callLog) - 1) :
           LET a == callLog[i]
               b == callLog[i + 1]
           IN /\ ( /\ OutcomeOf(a.out) = "permission_denied"
                   /\ \E root \in RootEntries(b.env) \ RootEntries(a.env) :
                          Covers(root)
                   /\ RootsWellFormed(b.env)
                   /\ FileFits(b.env) )
                  => b.out = PathReturned(NormalizedCandidate)
              /\ ( /\ a.out.kind = "return"
                   /\ CeilingFor(b.env.SKY_MCP_MAX_FILE_BYTES) < CandidateSize )
                  => /\ b.out.kind # "return"
                     /\ b.env.SKY_MCP_ALLOWED_ROOTS = a.env.SKY_MCP_ALLOWED_ROOTS
                          => /\ OutcomeOf(b.out) = "file_too_large"
                             /\ b.out.details.max_bytes =
                                    CeilingFor(b.env.SKY_MCP_MAX_FILE_BYTES)
                             /\ b.out.details.size = CandidateSize

\* /etc/f.cif is denied, SKY_MCP_ALLOWED_ROOTS is set to /etc, and the next
\* call returns the path
C22_Witness ==
    /\ Len(callLog) = 2
    /\ OutcomeOf(callLog[1].out) = "permission_denied"
    /\ callLog[1].env.SKY_MCP_ALLOWED_ROOTS = Unset
    /\ callLog[2].env.SKY_MCP_ALLOWED_ROOTS = SetTo(<<AbsPath(<<"etc">>)>>)
    /\ callLog[2].out = PathReturned(EtcFile)

\* /repo/f.cif of 8 bytes is returned under a ceiling of 8, the ceiling is
\* set to 7, and the next call refuses it as file_too_large
C22_WitnessCeiling ==
    /\ Len(callLog) = 2
    /\ callLog[1].env.SKY_MCP_MAX_FILE_BYTES = SetTo(<<" ", "8", " ">>)
    /\ callLog[1].out = PathReturned(VarFile)
    /\ callLog[2].env.SKY_MCP_MAX_FILE_BYTES = SetTo(<<"7">>)
    /\ OutcomeOf(callLog[2].out) = "file_too_large"

-----------------------------------------------------------------------------
(* Concurrent atomic_write_text calls on one target path                   *)

NumWriters == 2

Writers == 1..NumWriters

\* the random parts NamedTemporaryFile can draw for "<stem>_<random>.tmp"
TmpNames == 1..NumWriters

\* the contents the calls are given
WriterTexts == { <<"a">>, <<"b", "b">>, <<"a", "b">> }

\* a file of the directory with the call that created it (0: none of them)
NoOwned == [exists |-> FALSE, data |-> <<>>, by |-> 0]
Owned(data, by) == [exists |-> TRUE, data |-> data, by |-> by]

\* the parent directory: whether it exists, the file under the final name
\* and the files under the temporary names
Dir(made, target, tmps) == [made |-> made, target |-> target, tmps |-> tmps]

\* the locals of one call: position in the body, content, tmp.name (0 before
\* the file is opened) and the offset of its file object
Frame(pc, content, name, pos) ==
    [pc |-> pc, content |-> content, name |-> name, pos |-> pos]

\* the name is taken whether or not a file of that name exists
AnyNames(tmps) == TmpNames

\* tempfile._mkstemp_inner opens with O_CREAT | O_EXCL and draws another
\* name on FileExistsError: the name it returns did not exist
FreshNames(tmps) == { n \in TmpNames : ~tmps[n].exists }

\* write(2) through a file object at offset pos
WriteAt(data, pos, c) ==
    IF pos < Len(data) THEN [data EXCEPT ![pos + 1] = c]
    ELSE Append(data, c)

WritersInit ==
    /\ cw \in { f \in [Writers -> { Frame("start", t, 0, 0) : t \in WriterTexts }] :
                  \A v, w \in Writers : v # w => f[v].content # f[w].content }
    /\ cwDir \in { Dir(FALSE, NoOwned, [n \in TmpNames |-> NoOwned]),
                   Dir(TRUE, NoOwned, [n \in TmpNames |-> NoOwned]),
                   Dir(TRUE, Owned(<<"b", "a">>, 0), [n \in TmpNames |-> NoOwned]) }
    /\ cwLast = 0

WritersOthers ==
    UNCHANGED <<coreVars, reportVars, simVars, serverVars, validateVars,
                sessionVars>>

\* target_path.parent.mkdir(parents=True, exist_ok=True)
WMkdir(w) ==
    /\ cw[w].pc = "start"
    /\ cw' = [cw EXCEPT ![w].pc = "mkdir"]
    /\ cwDir' = [cwDir EXCEPT !.made = TRUE]
    /\ UNCHANGED cwLast
    /\ WritersOthers

\* tempfile.NamedTemporaryFile(..., delete=False, dir=parent, ...)
WCreateTemp(w) ==
    /\ cw[w].pc = "mkdir"
    /\ \E n \in FreshNames(cwDir.tmps) :
           /\ cw' = [cw EXCEPT ![w].pc = "write", ![w].name = n]
           /\ cwDir' = [cwDir EXCEPT !.tmps[n] = Owned(<<>>, w)]
    /\ UNCHANGED cwLast
    /\ WritersOthers

\* the next character of content reaches the file tmp is open on
WWriteChar(w) ==
    /\ cw[w].pc = "write"
    /\ cw[w].pos < Len(cw[w].content)
    /\ cwDir.tmps[cw[w].name].exists
    /\ cw' = [cw EXCEPT ![w].pos = @ + 1]
    /\ cwDir' = [cwDir EXCEPT !.tmps[cw[w].name].data =
                     WriteAt(@, cw[w].pos, cw[w].content[cw[w].pos + 1])]
    /\ UNCHANGED cwLast
    /\ WritersOthers

\* leaving the with block closes the file
WCloseTemp(w) ==
    /\ cw[w].pc = "write"
    /\ cw[w].pos = Len(cw[w].content)
    /\ cw' = [cw EXCEPT ![w].pc = "replace"]
    /\ UNCHANGED <<cwDir, cwLast>>
    /\ WritersOthers

\* os.replace(temp_name, target_path): one atomic rename, FileNotFoundError
\* when nothing is under temp_name
WOsReplace(w) ==
    /\ cw[w].pc = "replace"
    /\ IF cwDir.tmps[cw[w].name].exists
       THEN /\ cw' = [cw EXCEPT ![w].pc = "returned"]
            /\ cwDir' = [cwDir EXCEPT !.target = cwDir.tmps[cw[w].name],
                                      !.tmps[cw[w].name] = NoOwned]
            /\ cwLast' = w
       ELSE /\ cw' = [cw EXCEPT ![w].pc = "failed"]
            /\ UNCHANGED <<cwDir, cwLast>>
    /\ WritersOthers

\* an OSError in write or close (disk full): the exception leaves the call,
\* the temporary file stays (delete=False)
WFail(w) ==
    /\ cw[w].pc = "write"
    /\ cw' = [cw EXCEPT ![w].pc = "failed"]
    /\ UNCHANGED <<cwDir, cwLast>>
    /\ WritersOthers

WritersNext ==
    \E w \in Writers :
        \/ WMkdir(w)
        \/ WCreateTemp(w)
        \/ WWriteChar(w)
        \/ WCloseTemp(w)
        \/ WOsReplace(w)
        \/ WFail(w)

-----------------------------------------------------------------------------
(* Concurrent writers claim                                                *)

\* the call has a temporary file it has not renamed yet
HoldsTemp(w) == cw[w].pc \in {"write", "replace"}

AllReturned == \A w \in Writers : cw[w].pc = "returned"

\* the contents of the calls differ, so the call a text belongs to is unique
CompleteContentOf(data) == { w \in Writers : cw[w].content = data }

\* C23: concurrent atomic_write_text calls on one target with different
\* contents each write to a temporary file of their own; after a rename the
\* target holds exactly the complete content of the call that renamed last,
\* in particular once all calls have returned; no temporary file created by
\* a call that returned remains.
C23_LastRenameWins ==
    /\ \A v, w \in Writers :
           (v # w /\ HoldsTemp(v) /\ HoldsTemp(w)) => cw[v].name # cw[w].name
    /\ \A w \in Writers :
           HoldsTemp(w) =>
               /\ cwDir.tmps[cw[w].name].by = w
               /\ cwDir.tmps[cw[w].name].data =
                      SubSeq(cw[w].content, 1, cw[w].pos)
    /\ cwLast # 0 =>
           /\ cw[cwLast].pc = "returned"
           /\ cwDir.target = Owned(cw[cwLast].content, cwLast)
    /\ AllReturned =>
           /\ cwLast \in Writers
           /\ CompleteContentOf(cwDir.target.data) = {cwLast}
           /\ \A n \in TmpNames : ~cwDir.tmps[n].exists
    /\ \A w \in Writers :
           cw[w].pc = "returned" =>
               \A n \in TmpNames : cwDir.tmps[n].exists => cwDir.tmps[n].by # w

\* both calls have returned, call 1 renamed first and call 2 last, while the
\* two temporary files existed side by side before
C23_Witness ==
    /\ AllReturned
    /\ cwLast = 2
    /\ cw[1].content = <<"a", "b">>
    /\ cw[2].content = <<"b", "b">>
    /\ cwDir.target.data = <<"b", "b">>

\* the two calls write to their temporary files at the same time
C23_WitnessInterleaved ==
    /\ cw[1].pc = "write" /\ cw[2].pc = "write"
    /\ cw[1].pos = 1 /\ cw[2].pos = 1

-----------------------------------------------------------------------------
(* Specifications                                                          *)

EnvIdle == envCall = NoCall /\ envOut = NoOut /\ strictOut = NoOut

SandboxIdle ==
    /\ pathCall = PathCall(PathStr("empty", "", <<>>), NotGiven, NoLimit)
    /\ environ = Env(Unset, Unset)
    /\ fsNode = Node("absent", 0, FALSE)
    /\ pathOut = NoPathOut

ToolIdle == toolCall = NoToolCall /\ toolOut = NoOut

WriterIdle ==
    /\ wPc = "idle" /\ wContent = <<>> /\ wOld = NoFile /\ wDir = FALSE
    /\ wFiles = Files(NoFile, <<>>)
    /\ readerSaw = [read |-> FALSE, file |-> NoFile]

ReportIdle == repCall = NoReportCall /\ repOut = NoReport

SimIdle == simCall = NoSimCall /\ simOut = NoSimOut

ServerIdle ==
    /\ toolDefs = TOOL_DEFS /\ srvPc = "idle"
    /\ srvTool = "none" /\ srvNamed = FALSE
    /\ fastTools = <<>> /\ stdioTools = <<>> /\ srvLog = <<>>

ValidateIdle == valCall = NoValCall /\ valOut = NoOut

SessionIdle == callLog = <<>>

WritersIdle ==
    /\ cw = [w \in Writers |-> Frame("idle", <<>>, 0, 0)]
    /\ cwDir = Dir(FALSE, NoOwned, [n \in TmpNames |-> NoOwned])
    /\ cwLast = 0

LateIdle == ValidateIdle /\ SessionIdle /\ WritersIdle

ExtIdle == ReportIdle /\ SimIdle /\ ServerIdle /\ LateIdle

InitEnvelope == EnvInit /\ SandboxIdle /\ ToolIdle /\ WriterIdle /\ ExtIdle
SpecEnvelope == InitEnvelope /\ [][EnvNext]_vars

InitSandbox == SandboxInit /\ EnvIdle /\ WriterIdle /\ ExtIdle
SpecSandbox == InitSandbox /\ [][SandboxNext]_vars

InitWriter == WriterInit /\ EnvIdle /\ SandboxIdle /\ ToolIdle /\ ExtIdle
SpecWriter == InitWriter /\ [][WriterNext]_vars

InitTools == ToolInit /\ EnvIdle /\ WriterIdle /\ ExtIdle

CoreIdle == EnvIdle /\ SandboxIdle /\ ToolIdle /\ WriterIdle

InitReport == ReportInit /\ CoreIdle /\ SimIdle /\ ServerIdle /\ LateIdle
SpecReport == InitReport /\ [][ReportNext]_vars

InitSearch == SimInit /\ CoreIdle /\ ReportIdle /\ ServerIdle /\ LateIdle
SpecSearch == InitSearch /\ [][SimNext]_vars

InitServer == ServerInit /\ CoreIdle /\ ReportIdle /\ SimIdle /\ LateIdle
SpecServer == InitServer /\ [][ServerNext]_vars
SpecTools == InitTools /\ [][ToolNext]_vars

InitValidate ==
    /\ ValidateInit /\ CoreIdle /\ ReportIdle /\ SimIdle /\ ServerIdle
    /\ SessionIdle /\ WritersIdle
SpecValidate == InitValidate /\ [][ValidateNext]_vars

InitSession ==
    /\ SessionInit /\ EnvIdle /\ ToolIdle /\ WriterIdle
    /\ ReportIdle /\ SimIdle /\ ServerIdle /\ ValidateIdle /\ WritersIdle
SpecSession == InitSession /\ [][SessionNext]_vars

InitWriters ==
    /\ WritersInit /\ CoreIdle /\ ReportIdle /\ SimIdle /\ ServerIdle
    /\ ValidateIdle /\ SessionIdle
SpecWriters == InitWriters /\ [][WritersNext]_vars

====
